---- MODULE Spec2Model ----
(***************************************************************************)
(* A model of the ETL composition core of downsat (package downsat.etl):   *)
(* the pipeline operators, the multi-key fan-out of RunContext.map, the    *)
(* cache wrapper, the query wrapper and the weak-identity side-table.      *)
(*                                                                         *)
(* Each component has its own group of variables and its own               *)
(* specification (SpecPipe, SpecCacheSeq, SpecCachePar, SpecQuery,         *)
(* SpecWeak); a specification holds the other groups at their idle value.  *)
(*                                                                         *)
(* An optional value (Python's None or a value) is a sequence of length 0  *)
(* or 1: None is <<>>, the value v is <<v>>.                               *)
(***************************************************************************)
EXTENDS Integers, Sequences, FiniteSets, TLC

\* ---------------------------------------------------------------- bounds

\* Keys and values are the integers 0..MaxKey.
MaxKey == 1
\* A key tuple holds at most MaxLen keys.
MaxLen == 2
\* num_workers and max_workers are unset or 0..MaxWorkers.
MaxWorkers == 2
\* The cache wrapper is called from NThreads threads, MaxCalls times in all.
NThreads == 2
MaxCalls == 3
\* The side-table sees MaxObjs objects in all, at the addresses 1..MaxAddr.
MaxObjs == 3
MaxAddr == 2
\* A thread nests at most MaxDepth with-blocks of one lock.
MaxDepth == 3
\* Transforms and sources of the >> operator work on 0..MaxVal; at most
\* MaxBuilt composed classes are built.
MaxVal == 2
MaxBuilt == 2
\* NPipes pipeline instances are made from one composed class.
NPipes == 2
\* NIdent live objects serve as keys of the side-table.
NIdent == 2
\* A MultiDataSource lists at most MaxSubs sub-datasources.
MaxSubs == 3

Dom == 0..MaxKey

None == <<>>
Some(v) == <<v>>
Optional(S) == {None} \cup {Some(v) : v \in S}

Min(a, b) == IF a <= b THEN a ELSE b

\* All tuples over S of length 0..n.
TuplesUpTo(S, n) == UNION {[1..m -> S] : m \in 0..n}

VARIABLES
  \* ---- pipeline and fan-out (abc.py, class_transforms.py, context.py)
  pSource,    \* the wrapped data source: key -> optional value (absent: KeyError)
  pShift,     \* the transform's parameter (the tests' inp_arg)
  pKind,      \* which class the pipeline is: "out" (S >> T), "in" (T >> S), "plain" (multikey_ds(S))
  pNum,       \* run context: num_workers (optional)
  pMax,       \* run context: max_workers (optional)
  pPc,        \* "idle", "par" (a parallel map is running), "done"
  pKey,       \* the key argument of the current call: [tuple, ks]
  pSlots,     \* parallel map: result slot per submission index (optional outcome)
  pResult,    \* what the call returned or raised
  \* ---- cache wrapper (abc.py, _CachedDataSource)
  cSource,    \* the wrapped data source: key -> optional value
  cConv,      \* whether the sink converts values on the way in
  cSkip,      \* the skip predicate: "none", "key" or "value"
  cConcurrent,\* whether the callers overlap (threads) or call one after another
  cSink,      \* the sink's storage: key -> optional stored value
  cPc,        \* per thread: "idle", "load", "store", "reread"
  cKey,       \* per thread: the key of the call in progress
  cData,      \* per thread: the value loaded from the source
  cSteps,     \* per thread: the steps the call in progress has taken
  cSrcGets,   \* per key: how often the source's __getitem__ ran
  cSinkSets,  \* per key: how often the sink's __setitem__ ran
  cDone,      \* per key: how many calls have returned or raised
  cReturns,   \* per key: the set of values returned so far
  cCalls,     \* how many calls have begun
  cLast,      \* the call that ended last: [key, via, val, data, steps]
  \* ---- query wrapper (abc.py, _QueryDataSource; class_transforms.query)
  qCached,    \* whether a resolution cache is configured (shared by the wrappers)
  qCache,     \* the resolution cache: query kwargs -> optional data id
  qGets,      \* per wrapper and high-level key: gets so far
  qQueries,   \* per wrapper and high-level key: query() calls its gets made
  qByKwargs,  \* per query kwargs: query() calls made with them
  qCalls,     \* gets so far
  qLast,      \* the get that ended last: [w, key, val]
  \* ---- weak-identity side-table (weakref.py, WeakIdKeyDictionary)
  wObjs,      \* the objects so far: [state, id, refable], in creation order
  wData,      \* self.data: id -> optional value
  wFinal,     \* the objects that carry a live finalize() callback
  wOwner,     \* per id: the object whose __setitem__ made the entry
  wLast,      \* the operation that ended last
  \* ---- metadata of values (metadata.py)
  mKind,      \* per object: what its type supports ("attr", "weak", "none")
  mLocal,     \* per object: its attrs attribute, if it has one
  mGlobal,    \* per object: its entry in _global_metadata_dict, if any
  mLast,      \* the call that ended last
  \* ---- locks (core/lock.py, core/file_storage.py)
  lKind,      \* the lock class in use: "diskcache" or "file"
  lRegistry,  \* _file_rlocks[lock_path]: the registered lock object, if any
  lEntry,     \* per cache key: the RLock's entry [owner, count]
  lFlock,     \* per lock file: the [obj, thread] that holds the OS lock
  lPc,        \* per thread: its position
  lInst,      \* per thread: the lock object of the instance it enters next
  lStack,     \* per thread: the lock objects of the with-blocks it is inside
  \* ---- run context of components (context.py, getcontext / setcontext)
  xOption,    \* the RunContext field in use: "num_workers" or "max_workers"
  xAttr,      \* the class's _etl_run_context_ attribute, if it has one
  xGlobal,    \* per object: its entry in _global_context_dict, if any
  xLast,      \* the call that ended last
  \* ---- RunContext.map, call by call (context.py)
  aNum,       \* self.num_workers
  aMax,       \* self.max_workers
  aItems,     \* the container of the call: per item, whether fun raises on it
  aPc,        \* "idle", "serial", "parallel", "returned" or "raised"
  aWorkers,   \* what get_num_workers() returned to map
  aPool,      \* n_jobs of the joblib.Parallel pool, if one was made
  aLog,       \* the items fun has been called on, in call order
  aRunning,   \* the items fun is running on
  \* ---- reduce (abc.py, _ReduceTransform)
  rSource,    \* the wrapped multi-key data source: key -> optional value
  rLast,      \* the get that ended last
  \* ---- building query wrappers (class_transforms.py, query)
  bBuilt,     \* the values of by for which a wrapper class has been built
  bLast,      \* the call that ended last
  \* ---- the >> operator and the wrapper functions (abc.py, class_transforms.py)
  eBuilt,     \* the composed classes built so far, in the order they were built
  eWritten,   \* for each of them the two operands of its expression, as written
  eLast,      \* the expression or call that was evaluated last
  \* ---- class synthesis (abc.py, _InstantiateClassMixin; class_utils.py)
  zClass,     \* the composed class: its constituents (empty: none built yet)
  zLast,      \* the composition or instantiation that was evaluated last
  \* ---- instances of one composed class (abc.py, _maybe_instantiate)
  iForm,      \* how each constituent was given to cache(): "class", "partial" or "instance"
  iRef,       \* per pipeline instance: the objects it holds as _datasource and _cache
  iData,      \* per source object: its data, key -> value
  iSink,      \* per sink object: its storage, key -> optional value
  iGets,      \* per source object: how often its __getitem__ was called
  iLast,      \* the operation that ended last
  \* ---- identity keys of the side-table (weakref.py, WeakIdKeyDictionary)
  kEq,        \* per key object: the value it compares and hashes by
  kData,      \* self.data: key -> optional value
  kOwn,       \* per key object: the value last stored for that very object
  kLast,      \* the operation that ended last
  \* ---- locks with sub-keys (lock.py, LockBase.__call__)
  sKind,      \* "diskcache" (DiskCacheRLock) or "file" (FileRLock)
  sRegistry,  \* _file_rlocks: lock file -> the FileLock object registered (0: none)
  sEntry,     \* diskcache: the RLock entry (owner, count) of a key in a cache
  sFlock,     \* the OS lock of a lock file: the object and thread holding it
  sPc,        \* per thread: "idle", "creating", "ready" or "waiting"
  sInst,      \* per thread: the lock instance it made and has not entered yet
  sStack,     \* per thread: the instances whose with-blocks it is inside
  sLast,      \* the last lock(lock_key) call: the lock called, the key, the result
  \* ---- data source of several sub-datasources (datasource.py)
  uData,      \* per sub-datasource: what it returns for the key (absent: KeyError)
  uLast,      \* the MultiDataSource get that ended since the last write
  \* ---- cached data source, single-key and multi-key gets (abc.py)
  gSource,    \* the wrapped data source: key -> optional value (absent: KeyError)
  gSkip,      \* the skip predicate: "none", "key" or "value"
  gSink,      \* the sink's storage: key -> optional value
  gArg,       \* the tuple key of the get in progress (<<>> when idle)
  gPos,       \* the position in gArg that is fetched next (0 when idle)
  gPartial,   \* the results of the positions already fetched
  gBefore,    \* the sink as it was when the get in progress began
  gSrcGets,   \* per key: how often the source's __getitem__ ran
  gSkipCalls, \* per key: how often the skip predicate ran
  gLast,      \* the get that ended last
  \* ---- query wrapper with failing query or fetch (abc.py, _QueryDataSource)
  nQuery,     \* the source's query(): key -> optional data id (absent: it raises)
  nData,      \* the source's data: data id -> optional value (absent: KeyError)
  nCache,     \* the resolution cache: key -> optional data id
  nQueries,   \* per key: how often query() ran
  nFetches,   \* per data id: how often the source's __getitem__ ran
  nLast       \* the get that ended last

resVars == <<nQuery, nData, nCache, nQueries, nFetches, nLast>>

ctupVars == <<gSource, gSkip, gSink, gArg, gPos, gPartial, gBefore, gSrcGets, gSkipCalls, gLast>>

multiVars == <<uData, uLast>>

subVars == <<sKind, sRegistry, sEntry, sFlock, sPc, sInst, sStack, sLast>>

identVars == <<kEq, kData, kOwn, kLast>>

instVars == <<iForm, iRef, iData, iSink, iGets, iLast>>

synthVars == <<zClass, zLast>>

shiftVars == <<eBuilt, eWritten, eLast>>

bindVars == <<bBuilt, bLast>>

reduceVars == <<rSource, rLast>>

mapVars == <<aNum, aMax, aItems, aPc, aWorkers, aPool, aLog, aRunning>>

ctxVars == <<xOption, xAttr, xGlobal, xLast>>

lockVars == <<lKind, lRegistry, lEntry, lFlock, lPc, lInst, lStack>>

metaVars == <<mKind, mLocal, mGlobal, mLast>>

pipeVars == <<pSource, pShift, pKind, pNum, pMax, pPc, pKey, pSlots, pResult>>

cacheVars == <<cSource, cConv, cSkip, cConcurrent, cSink, cPc, cKey, cData, cSteps,
               cSrcGets, cSinkSets, cDone, cReturns, cCalls, cLast>>

queryVars == <<qCached, qCache, qGets, qQueries, qByKwargs, qCalls, qLast>>

weakVars == <<wObjs, wData, wFinal, wOwner, wLast>>

vars == <<pipeVars, cacheVars, queryVars, weakVars, metaVars, lockVars, ctxVars, mapVars, reduceVars, bindVars, shiftVars, synthVars, instVars, identVars, subVars, multiVars, ctupVars, resVars>>

\* ------------------------------------------------ pipelines, single key

\* The test transform: inp + inp_arg (kept inside the key/value domain).
Transform(shift, inp) == (inp + shift) % (MaxKey + 1)

\* What a single-key __getitem__ does: ok = FALSE is a raised KeyError;
\* fetched are the keys the wrapped source was asked for, applied the
\* inputs the transform was called with (both in call order).
Outcome(ok, val, fetched, applied) ==
  [ok |-> ok, val |-> val, fetched |-> fetched, applied |-> applied]

\* A mutant of ModifiedOutputGetitem: the transform is applied to the key and
\* the source is fetched with the transformed key (the input direction).
ModifiedOutputGetitemSwapped(src, shift, key) ==
  LET new_key == Transform(shift, key)
      data == src[new_key]
  IN IF data = None
       THEN Outcome(FALSE, new_key, <<new_key>>, <<key>>)
       ELSE Outcome(TRUE, data[1], <<new_key>>, <<key>>)

\* _ModifiedOutputDataSource.__getitem__, single key:
\*   data = self._datasource[key]; result = self._output_transform(data)
ModifiedOutputGetitem(src, shift, key) ==
  LET data == src[key]
  IN IF data = None
       THEN Outcome(FALSE, key, <<key>>, <<>>)
       ELSE Outcome(TRUE, Transform(shift, data[1]), <<key>>, <<data[1]>>)

\* A mutant of ModifiedInputGetitem: the source is fetched with the
\* untransformed key.
ModifiedInputGetitemRawKey(src, shift, key) ==
  LET data == src[key]
  IN IF data = None
       THEN Outcome(FALSE, key, <<key>>, <<key>>)
       ELSE Outcome(TRUE, data[1], <<key>>, <<key>>)

\* _ModifiedInputDataSource.__getitem__, single key:
\*   new_key = self._input_transform(key); result = self._datasource[new_key]
ModifiedInputGetitem(src, shift, key) ==
  LET new_key == Transform(shift, key)
      data == src[new_key]
  IN IF data = None
       THEN Outcome(FALSE, new_key, <<new_key>>, <<key>>)
       ELSE Outcome(TRUE, data[1], <<new_key>>, <<key>>)

\* multikey_ds(cls), single key: cls.__getitem__(self, key)
PlainGetitem(src, key) ==
  LET data == src[key]
  IN IF data = None
       THEN Outcome(FALSE, key, <<key>>, <<>>)
       ELSE Outcome(TRUE, data[1], <<key>>, <<>>)

\* The single-key branch of the pipeline class in use.
SingleGetitem(kind, src, shift, key) ==
  CASE kind = "out" -> ModifiedOutputGetitem(src, shift, key)
    [] kind = "in" -> ModifiedInputGetitem(src, shift, key)
    [] OTHER -> PlainGetitem(src, key)

\* ------------------------------------------------------- RunContext.map

\* A mutant of GetNumWorkers: max_workers wins whenever it is set.
GetNumWorkersMaxWins(num, max) == IF max = None THEN num ELSE max

\* RunContext.get_num_workers
GetNumWorkers(num, max) ==
  IF num = None THEN max
  ELSE IF max = None THEN num
  ELSE Some(Min(num[1], max[1]))

\* A mutant of EffectiveWorkers: two workers whatever the context says.
EffectiveWorkersTwo(num, max) == 2

\* RunContext.map: the worker count after the default (num_workers = 1).
EffectiveWorkers(num, max) ==
  LET n == GetNumWorkers(num, max) IN IF n = None THEN 1 ELSE n[1]

\* A mutant of IsParallel: the length of the container is not looked at.
IsParallelAnyLength(num, max, container) == EffectiveWorkers(num, max) > 1

\* RunContext.map: num_workers > 1 and len(container) > 1
IsParallel(num, max, container) ==
  EffectiveWorkers(num, max) > 1 /\ Len(container) > 1

\* What a call returns: "value" (a single outcome in vals), "tuple" (one
\* outcome per key, in vals) or "KeyError" (raised; vals is empty).
Returned(status, vals) == [status |-> status, vals |-> vals]
NoResult == Returned("none", <<>>)

\* The serial branch: [fun(item) for item in container]; the first failing
\* item raises and ends the comprehension.
SerialMap(kind, src, shift, container) ==
  LET outs == [i \in 1..Len(container) |-> SingleGetitem(kind, src, shift, container[i])]
  IN IF \E i \in 1..Len(container) : ~outs[i].ok
       THEN Returned("KeyError", <<>>)
       ELSE Returned("tuple", outs)

\* The indices a parallel map has dispatched but not finished: joblib
\* dispatches in submission order and keeps at most n_jobs tasks running.
Pending(slots) == {i \in 1..Len(slots) : slots[i] = None}
Running(slots, workers) ==
  {i \in Pending(slots) : Cardinality({j \in Pending(slots) : j < i}) < workers}

\* A mutant of StoreResult: results are collected in completion order.
StoreResultCompletionOrder(slots, i, out) ==
  LET first == CHOOSE j \in Pending(slots) : \A l \in Pending(slots) : j <= l
  IN [slots EXCEPT ![first] = Some(out)]

\* joblib.Parallel: the result of the task submitted i-th goes to slot i.
StoreResult(slots, i, out) == [slots EXCEPT ![i] = Some(out)]

\* A mutant of CollectResults: the failed items are dropped and the
\* successful ones are returned.
CollectResultsPartial(slots) ==
  Returned("tuple", SelectSeq([i \in 1..Len(slots) |-> slots[i][1]], LAMBDA o : o.ok))

\* tuple(results) once every task has finished; a task's exception is
\* re-raised in the caller instead.
CollectResults(slots) ==
  IF \E i \in 1..Len(slots) : ~slots[i][1].ok
    THEN Returned("KeyError", <<>>)
    ELSE Returned("tuple", [i \in 1..Len(slots) |-> slots[i][1]])

\* -------------------------------------------------- pipeline: the calls

PipeIdle ==
  /\ pSource = [k \in Dom |-> None]
  /\ pShift = 0
  /\ pKind = "plain"
  /\ pNum = None
  /\ pMax = None
  /\ pPc = "idle"
  /\ pKey = [tuple |-> FALSE, ks |-> <<>>]
  /\ pSlots = <<>>
  /\ pResult = NoResult

PipeInit ==
  /\ pSource \in [Dom -> Optional(Dom)]
  /\ pShift \in Dom
  /\ pKind \in {"out", "in", "plain"}
  /\ pNum \in Optional(0..MaxWorkers)
  /\ pMax \in Optional(0..MaxWorkers)
  /\ pPc = "idle"
  /\ pKey = [tuple |-> FALSE, ks |-> <<>>]
  /\ pSlots = <<>>
  /\ pResult = NoResult

PipeFrame == UNCHANGED <<cacheVars, queryVars, weakVars, metaVars, lockVars, ctxVars, mapVars, reduceVars, bindVars, shiftVars, synthVars, instVars, identVars, subVars, multiVars, ctupVars, resVars>>

PipeConfig == <<pSource, pShift, pKind, pNum, pMax>>

\* __getitem__(key) with a non-tuple key: the single-key branch.
GetSingle(key) ==
  /\ pPc \in {"idle", "done"}
  /\ LET out == SingleGetitem(pKind, pSource, pShift, key)
     IN pResult' = IF out.ok THEN Returned("value", <<out>>)
                            ELSE Returned("KeyError", <<>>)
  /\ pKey' = [tuple |-> FALSE, ks |-> <<key>>]
  /\ pSlots' = <<>>
  /\ pPc' = "done"
  /\ UNCHANGED PipeConfig
  /\ PipeFrame

\* __getitem__(key) with a tuple, RunContext.map's serial branch.
GetTupleSerial(keys) ==
  /\ pPc \in {"idle", "done"}
  /\ ~IsParallel(pNum, pMax, keys)
  /\ pResult' = SerialMap(pKind, pSource, pShift, keys)
  /\ pKey' = [tuple |-> TRUE, ks |-> keys]
  /\ pSlots' = <<>>
  /\ pPc' = "done"
  /\ UNCHANGED PipeConfig
  /\ PipeFrame

\* __getitem__(key) with a tuple, RunContext.map's parallel branch: the
\* tasks are handed to joblib.Parallel.
GetTupleParallel(keys) ==
  /\ pPc \in {"idle", "done"}
  /\ IsParallel(pNum, pMax, keys)
  /\ pResult' = NoResult
  /\ pKey' = [tuple |-> TRUE, ks |-> keys]
  /\ pSlots' = [i \in 1..Len(keys) |-> None]
  /\ pPc' = "par"
  /\ UNCHANGED PipeConfig
  /\ PipeFrame

\* A running task finishes: the tasks finish in any order.
TaskFinish(i) ==
  /\ pPc = "par"
  /\ i \in Running(pSlots, EffectiveWorkers(pNum, pMax))
  /\ pSlots' = StoreResult(pSlots, i, SingleGetitem(pKind, pSource, pShift, pKey.ks[i]))
  /\ UNCHANGED <<pPc, pKey, pResult>>
  /\ UNCHANGED PipeConfig
  /\ PipeFrame

\* Every task has finished: map returns tuple(results) or re-raises.
ParallelReturn ==
  /\ pPc = "par"
  /\ Pending(pSlots) = {}
  /\ pResult' = CollectResults(pSlots)
  /\ pPc' = "done"
  /\ UNCHANGED <<pKey, pSlots>>
  /\ UNCHANGED PipeConfig
  /\ PipeFrame

\* A task has failed while others are still pending: joblib aborts the
\* rest and re-raises the task's exception in the caller.
ParallelAbort ==
  /\ pPc = "par"
  /\ Pending(pSlots) # {}
  /\ \E i \in 1..Len(pSlots) : pSlots[i] # None /\ ~pSlots[i][1].ok
  /\ pResult' = Returned("KeyError", <<>>)
  /\ pPc' = "done"
  /\ UNCHANGED <<pKey, pSlots>>
  /\ UNCHANGED PipeConfig
  /\ PipeFrame

PipeNext ==
  \/ \E key \in Dom : GetSingle(key)
  \/ \E keys \in TuplesUpTo(Dom, MaxLen) : GetTupleSerial(keys)
  \/ \E keys \in TuplesUpTo(Dom, MaxLen) : GetTupleParallel(keys)
  \/ \E i \in 1..MaxLen : TaskFinish(i)
  \/ ParallelReturn
  \/ ParallelAbort

\* -------------------------------------------------------- cache wrapper

Threads == 1..NThreads

\* The sink may transform a value on the way in (a file sink serialises).
SinkConvert(conv, v) == IF conv THEN (v + 1) % (MaxKey + 1) ELSE v

\* skip_if(key, data) for the predicates in use: the tests' lambda key, _:
\* key == "a" (here: key 0), and a predicate on the loaded value.
SkipIf(skip, key, data) ==
  CASE skip = "key" -> key = 0
    [] skip = "value" -> data = 0
    [] OTHER -> FALSE

\* A mutant of ShouldStore: nothing is ever stored.
ShouldStoreNever(skip, key, data) == FALSE

\* A mutant of ShouldStore: the skip predicate is ignored.
ShouldStoreAlways(skip, key, data) == TRUE

\* if self._skip_if is None or not self._skip_if(key, data)
ShouldStore(skip, key, data) == skip = "none" \/ ~SkipIf(skip, key, data)

\* A mutant of RereadResult: the in-memory value is returned.
RereadResultInMemory(sink, key, data) == data

\* result = self._cache[key] after the store
RereadResult(sink, key, data) == sink[key][1]

Ended(key, via, val, data, steps) ==
  [key |-> key, via |-> via, val |-> val, data |-> data, steps |-> steps]

CacheIdle ==
  /\ cSource = [k \in Dom |-> None]
  /\ cConv = FALSE
  /\ cSkip = "none"
  /\ cConcurrent = FALSE
  /\ cSink = [k \in Dom |-> None]
  /\ cPc = [t \in Threads |-> "idle"]
  /\ cKey = [t \in Threads |-> 0]
  /\ cData = [t \in Threads |-> 0]
  /\ cSteps = [t \in Threads |-> <<>>]
  /\ cSrcGets = [k \in Dom |-> 0]
  /\ cSinkSets = [k \in Dom |-> 0]
  /\ cDone = [k \in Dom |-> 0]
  /\ cReturns = [k \in Dom |-> {}]
  /\ cCalls = 0
  /\ cLast = Ended(0, "none", 0, 0, <<>>)

\* After construction: a source, a fresh (empty) sink, no call yet.
CacheInit(concurrent) ==
  /\ cSource \in [Dom -> Optional(Dom)]
  /\ cConv \in BOOLEAN
  /\ cSkip \in {"none", "key", "value"}
  /\ cConcurrent = concurrent
  /\ cSink = [k \in Dom |-> None]
  /\ cPc = [t \in Threads |-> "idle"]
  /\ cKey = [t \in Threads |-> 0]
  /\ cData = [t \in Threads |-> 0]
  /\ cSteps = [t \in Threads |-> <<>>]
  /\ cSrcGets = [k \in Dom |-> 0]
  /\ cSinkSets = [k \in Dom |-> 0]
  /\ cDone = [k \in Dom |-> 0]
  /\ cReturns = [k \in Dom |-> {}]
  /\ cCalls = 0
  /\ cLast = Ended(0, "none", 0, 0, <<>>)

CacheFrame == UNCHANGED <<pipeVars, queryVars, weakVars, metaVars, lockVars, ctxVars, mapVars, reduceVars, bindVars, shiftVars, synthVars, instVars, identVars, subVars, multiVars, ctupVars, resVars>>

CacheConfig == <<cSource, cConv, cSkip, cConcurrent>>

\* A call may begin when its thread is idle; sequential callers begin a
\* call only after the previous one has ended.
MayBegin(t) ==
  /\ cPc[t] = "idle"
  /\ cCalls < MaxCalls
  /\ cConcurrent \/ \A u \in Threads : cPc[u] = "idle"

\* The call ends for thread t, returning val (via "hit", "skip", "miss").
Return(t, key, via, val, data, steps) ==
  /\ cPc' = [cPc EXCEPT ![t] = "idle"]
  /\ cSteps' = [cSteps EXCEPT ![t] = <<>>]
  /\ cDone' = [cDone EXCEPT ![key] = @ + 1]
  /\ cReturns' = [cReturns EXCEPT ![key] = @ \cup {val}]
  /\ cLast' = Ended(key, via, val, data, steps)

\* __getitem__(key), single key, try: result = self._cache[key] succeeds.
CacheGetHit(t, key) ==
  /\ MayBegin(t)
  /\ cSink[key] # None
  /\ cCalls' = cCalls + 1
  /\ Return(t, key, "hit", cSink[key][1], 0, <<"read">>)
  /\ UNCHANGED <<cSink, cKey, cData, cSrcGets, cSinkSets>>
  /\ UNCHANGED CacheConfig
  /\ CacheFrame

\* __getitem__(key), single key, self._cache[key] raises KeyError: a miss.
CacheGetMiss(t, key) ==
  /\ MayBegin(t)
  /\ cSink[key] = None
  /\ cCalls' = cCalls + 1
  /\ cPc' = [cPc EXCEPT ![t] = "load"]
  /\ cKey' = [cKey EXCEPT ![t] = key]
  /\ cSteps' = [cSteps EXCEPT ![t] = <<"read">>]
  /\ UNCHANGED <<cSink, cData, cSrcGets, cSinkSets, cDone, cReturns, cLast>>
  /\ UNCHANGED CacheConfig
  /\ CacheFrame

\* data = self._datasource[key] raises KeyError: the call raises it.
CacheLoadFail(t) ==
  /\ cPc[t] = "load"
  /\ cSource[cKey[t]] = None
  /\ cSrcGets' = [cSrcGets EXCEPT ![cKey[t]] = @ + 1]
  /\ cPc' = [cPc EXCEPT ![t] = "idle"]
  /\ cDone' = [cDone EXCEPT ![cKey[t]] = @ + 1]
  /\ cSteps' = [cSteps EXCEPT ![t] = <<>>]
  /\ cLast' = Ended(cKey[t], "KeyError", 0, 0, Append(cSteps[t], "load"))
  /\ UNCHANGED <<cSink, cKey, cData, cSinkSets, cReturns, cCalls>>
  /\ UNCHANGED CacheConfig
  /\ CacheFrame

\* data = self._datasource[key], and the skip predicate holds:
\* result = data, the sink is left alone.
CacheLoadSkip(t) ==
  /\ cPc[t] = "load"
  /\ cSource[cKey[t]] # None
  /\ ~ShouldStore(cSkip, cKey[t], cSource[cKey[t]][1])
  /\ cSrcGets' = [cSrcGets EXCEPT ![cKey[t]] = @ + 1]
  /\ Return(t, cKey[t], "skip", cSource[cKey[t]][1], cSource[cKey[t]][1],
            Append(cSteps[t], "load"))
  /\ UNCHANGED <<cSink, cKey, cData, cSinkSets, cCalls>>
  /\ UNCHANGED CacheConfig
  /\ CacheFrame

\* data = self._datasource[key], to be stored.
CacheLoad(t) ==
  /\ cPc[t] = "load"
  /\ cSource[cKey[t]] # None
  /\ ShouldStore(cSkip, cKey[t], cSource[cKey[t]][1])
  /\ cSrcGets' = [cSrcGets EXCEPT ![cKey[t]] = @ + 1]
  /\ cData' = [cData EXCEPT ![t] = cSource[cKey[t]][1]]
  /\ cPc' = [cPc EXCEPT ![t] = "store"]
  /\ cSteps' = [cSteps EXCEPT ![t] = Append(@, "load")]
  /\ UNCHANGED <<cSink, cKey, cSinkSets, cDone, cReturns, cCalls, cLast>>
  /\ UNCHANGED CacheConfig
  /\ CacheFrame

\* self._cache[key] = data
CacheStore(t) ==
  /\ cPc[t] = "store"
  /\ cSink' = [cSink EXCEPT ![cKey[t]] = Some(SinkConvert(cConv, cData[t]))]
  /\ cSinkSets' = [cSinkSets EXCEPT ![cKey[t]] = @ + 1]
  /\ cPc' = [cPc EXCEPT ![t] = "reread"]
  /\ cSteps' = [cSteps EXCEPT ![t] = Append(@, "store")]
  /\ UNCHANGED <<cKey, cData, cSrcGets, cDone, cReturns, cCalls, cLast>>
  /\ UNCHANGED CacheConfig
  /\ CacheFrame

\* result = self._cache[key]; return result
CacheReread(t) ==
  /\ cPc[t] = "reread"
  /\ Return(t, cKey[t], "miss", RereadResult(cSink, cKey[t], cData[t]), cData[t],
            Append(cSteps[t], "reread"))
  /\ UNCHANGED <<cSink, cKey, cData, cSrcGets, cSinkSets, cCalls>>
  /\ UNCHANGED CacheConfig
  /\ CacheFrame

CacheNext ==
  \/ \E t \in Threads, key \in Dom : CacheGetHit(t, key)
  \/ \E t \in Threads, key \in Dom : CacheGetMiss(t, key)
  \/ \E t \in Threads : CacheLoadFail(t)
  \/ \E t \in Threads : CacheLoadSkip(t)
  \/ \E t \in Threads : CacheLoad(t)
  \/ \E t \in Threads : CacheStore(t)
  \/ \E t \in Threads : CacheReread(t)

\* -------------------------------------------------------- query wrapper

\* The wrapper instances under test, all built over one source class and
\* one resolution cache instance: one per binding mode as in test_query
\* (by=None, by="x", by="y", by=callable) and a second instance of the
\* by="x" class.
Wrappers == {"none", "x", "y", "callable", "x2"}

\* query()'s keyword arguments: each of x and y given or not.
Kwargs(x, y) == [x |-> x, y |-> y]

\* A high-level key: a scalar (s) for the field-name and callable modes, a
\* mapping (x, y) for by=None.
ScalarKey(k) == [s |-> Some(k), x |-> None, y |-> None]
DictKey(kw) == [s |-> None, x |-> kw.x, y |-> kw.y]

\* The kwargs the binding modes produce from the scalar keys.
KwargsSet ==
  {Kwargs(Some(k), None) : k \in Dom} \cup {Kwargs(None, Some(k)) : k \in Dom}
    \cup {Kwargs(Some(k), Some(3)) : k \in Dom}

HighKeys == {ScalarKey(k) : k \in Dom} \cup {DictKey(kw) : kw \in KwargsSet}

\* The keys a wrapper accepts.
KeysOf(w) ==
  IF w = "none" THEN {DictKey(kw) : kw \in KwargsSet} ELSE {ScalarKey(k) : k \in Dom}

\* A mutant of Bind: a field name binds the key to the other field.
BindOtherField(w, key) ==
  CASE w = "none" -> Kwargs(key.x, key.y)
    [] w \in {"x", "x2"} -> Kwargs(None, key.s)
    [] w = "y" -> Kwargs(key.s, None)
    [] OTHER -> Kwargs(key.s, Some(3))

\* class_transforms.query: how the key becomes query(**kwargs).
\*   by=None: the key is the mapping; by=str: _Value2dict(key=by);
\*   by=callable: the tests' lambda x: {"x": x, "y": 3}.
Bind(w, key) ==
  CASE w = "none" -> Kwargs(key.x, key.y)
    [] w \in {"x", "x2"} -> Kwargs(key.s, None)
    [] w = "y" -> Kwargs(None, key.s)
    [] OTHER -> Kwargs(key.s, Some(3))

\* The tests' query_fun: res = 0; if x: res += 2 * x; if y: res += y
QueryFun(kw) ==
  (IF kw.x # None /\ kw.x[1] # 0 THEN 2 * kw.x[1] ELSE 0)
    + (IF kw.y # None /\ kw.y[1] # 0 THEN kw.y[1] ELSE 0)

\* The tests' TestSource.__getitem__: key**2
QuerySourceGetitem(data_id) == data_id * data_id

\* _QueryDataSource.__getitem__ without a cache:
\*   data_id = self._datasource.query(**key); result = self._datasource[data_id]
UncachedGetitem(w, key) == QuerySourceGetitem(QueryFun(Bind(w, key)))

\* A mutant of QueryCacheSet: the resolution is not stored.
QueryCacheSetDropped(cache, kw, data_id) == cache

\* self._query_cache[key] = data_id
QueryCacheSet(cache, kw, data_id) == [cache EXCEPT ![kw] = Some(data_id)]

QueryZero == [w \in Wrappers |-> [k \in HighKeys |-> 0]]

QueryIdle ==
  /\ qCached = FALSE
  /\ qCache = [kw \in KwargsSet |-> None]
  /\ qGets = QueryZero
  /\ qQueries = QueryZero
  /\ qByKwargs = [kw \in KwargsSet |-> 0]
  /\ qCalls = 0
  /\ qLast = [w |-> "none", key |-> ScalarKey(0), val |-> 0]

\* After construction: an empty resolution cache (or none), no get yet.
QueryInit ==
  /\ qCached \in BOOLEAN
  /\ qCache = [kw \in KwargsSet |-> None]
  /\ qGets = QueryZero
  /\ qQueries = QueryZero
  /\ qByKwargs = [kw \in KwargsSet |-> 0]
  /\ qCalls = 0
  /\ qLast = [w |-> "none", key |-> ScalarKey(0), val |-> 0]

QueryFrame == UNCHANGED <<pipeVars, cacheVars, weakVars, metaVars, lockVars, ctxVars, mapVars, reduceVars, bindVars, shiftVars, synthVars, instVars, identVars, subVars, multiVars, ctupVars, resVars>>

\* The get returns for wrapper w and key.
QueryReturn(w, key, val) ==
  /\ qCalls' = qCalls + 1
  /\ qGets' = [qGets EXCEPT ![w][key] = @ + 1]
  /\ qLast' = [w |-> w, key |-> key, val |-> val]

\* The get runs self._datasource.query(**kwargs).
QueryRuns(w, key) ==
  /\ qQueries' = [qQueries EXCEPT ![w][key] = @ + 1]
  /\ qByKwargs' = [qByKwargs EXCEPT ![Bind(w, key)] = @ + 1]

\* __getitem__, self._query_cache is None: query, then fetch.
QueryGetUncached(w, key) ==
  /\ qCalls < MaxCalls
  /\ ~qCached
  /\ QueryRuns(w, key)
  /\ QueryReturn(w, key, UncachedGetitem(w, key))
  /\ UNCHANGED <<qCached, qCache>>
  /\ QueryFrame

\* __getitem__, data_id = self._query_cache[key] succeeds: fetch.
QueryGetHit(w, key) ==
  /\ qCalls < MaxCalls
  /\ qCached
  /\ qCache[Bind(w, key)] # None
  /\ QueryReturn(w, key, QuerySourceGetitem(qCache[Bind(w, key)][1]))
  /\ UNCHANGED <<qCached, qCache, qQueries, qByKwargs>>
  /\ QueryFrame

\* __getitem__, self._query_cache[key] raises KeyError: query, store the
\* resolution, fetch.
QueryGetMiss(w, key) ==
  /\ qCalls < MaxCalls
  /\ qCached
  /\ qCache[Bind(w, key)] = None
  /\ QueryRuns(w, key)
  /\ qCache' = QueryCacheSet(qCache, Bind(w, key), QueryFun(Bind(w, key)))
  /\ QueryReturn(w, key, QuerySourceGetitem(QueryFun(Bind(w, key))))
  /\ UNCHANGED qCached
  /\ QueryFrame

QueryNext ==
  \/ \E w \in Wrappers : \E key \in KeysOf(w) : QueryGetUncached(w, key)
  \/ \E w \in Wrappers : \E key \in KeysOf(w) : QueryGetHit(w, key)
  \/ \E w \in Wrappers : \E key \in KeysOf(w) : QueryGetMiss(w, key)

\* ------------------------------------------- weak-identity side-table

Addrs == 1..MaxAddr

\* An object: alive or collected, its id() and whether its type supports
\* weak references (a list or a tuple does not).
Obj(state, id, refable) == [state |-> state, id |-> id, refable |-> refable]

Alive == {o \in 1..Len(wObjs) : wObjs[o].state = "alive"}

\* id() is unique among the live objects; a collected object's id is free.
FreeAddrs == Addrs \ {wObjs[o].id : o \in Alive}

\* What the last operation did: op, the object, the value returned (if
\* any), whether it raised, and len(self.data) before and after.
WeakDone(op, obj, val, raised, before, after) ==
  [op |-> op, obj |-> obj, val |-> val, raised |-> raised, before |-> before, after |-> after]

\* __len__
WeakLen(data) == Cardinality({a \in Addrs : data[a] # None})

\* A mutant of Finalizable: a finalizer can be attached to every object.
FinalizableAlways(obj) == TRUE

\* finalize(key, ...) in __setitem__: a TypeError for an object that cannot
\* be weakly referenced.
Finalizable(obj) == obj.refable

\* A mutant of WeakDelitem: the finalizer's callback removes nothing.
WeakDelitemNoop(data, key_id) == data

\* _weak_delitem: delete item, no KeyError if it does not exist.
WeakDelitem(data, key_id) == [data EXCEPT ![key_id] = None]

WeakIdle ==
  /\ wObjs = <<>>
  /\ wData = [a \in Addrs |-> None]
  /\ wFinal = {}
  /\ wOwner = [a \in Addrs |-> 0]
  /\ wLast = WeakDone("none", 0, None, FALSE, 0, 0)

\* __init__: self.data = dict()
WeakInit == WeakIdle

WeakFrame == UNCHANGED <<pipeVars, cacheVars, queryVars, metaVars, lockVars, ctxVars, mapVars, reduceVars, bindVars, shiftVars, synthVars, instVars, identVars, subVars, multiVars, ctupVars, resVars>>

\* A new object is allocated, at an address no live object has.
NewObject(id, refable) ==
  /\ Len(wObjs) < MaxObjs
  /\ id \in FreeAddrs
  /\ wObjs' = Append(wObjs, Obj("alive", id, refable))
  /\ wLast' = WeakDone("new", Len(wObjs) + 1, None, FALSE, WeakLen(wData), WeakLen(wData))
  /\ UNCHANGED <<wData, wFinal, wOwner>>
  /\ WeakFrame

\* __setitem__: finalize(key, self._weak_delitem, obj_id) if the id is not
\* in self.data yet, then self.data[obj_id] = value.
WeakSetitemStore(o, value) ==
  /\ o \in Alive
  /\ wData[wObjs[o].id] # None \/ Finalizable(wObjs[o])
  /\ wFinal' = IF wData[wObjs[o].id] = None THEN wFinal \cup {o} ELSE wFinal
  /\ wOwner' = IF wData[wObjs[o].id] = None THEN [wOwner EXCEPT ![wObjs[o].id] = o] ELSE wOwner
  /\ wData' = [wData EXCEPT ![wObjs[o].id] = Some(value)]
  /\ wLast' = WeakDone("set", o, None, FALSE, WeakLen(wData), WeakLen(wData'))
  /\ UNCHANGED wObjs
  /\ WeakFrame

\* __setitem__ / setdefault: finalize() raises TypeError for an object that
\* cannot be weakly referenced; nothing is stored.
WeakSetitemTypeError(o) ==
  /\ o \in Alive
  /\ wData[wObjs[o].id] = None /\ ~Finalizable(wObjs[o])
  /\ wLast' = WeakDone("set", o, None, TRUE, WeakLen(wData), WeakLen(wData))
  /\ UNCHANGED <<wObjs, wData, wFinal, wOwner>>
  /\ WeakFrame

\* setdefault: the id is in self.data: return self[key].
\* setdefault(key, default) for an id that is not in data: self[key] =
\* default raises the TypeError of __setitem__.
WeakSetdefaultTypeError(o, default) ==
  /\ o \in Alive
  /\ wData[wObjs[o].id] = None /\ ~Finalizable(wObjs[o])
  /\ wLast' = WeakDone("setdefault", o, None, TRUE, WeakLen(wData), WeakLen(wData))
  /\ UNCHANGED <<wObjs, wData, wFinal, wOwner>>
  /\ WeakFrame

WeakSetdefaultPresent(o, default) ==
  /\ o \in Alive
  /\ wData[wObjs[o].id] # None
  /\ wLast' = WeakDone("setdefault", o, wData[wObjs[o].id], FALSE, WeakLen(wData), WeakLen(wData))
  /\ UNCHANGED <<wObjs, wData, wFinal, wOwner>>
  /\ WeakFrame

\* setdefault: the id is not in self.data: self[key] = default.
WeakSetdefaultAbsent(o, default) ==
  /\ o \in Alive
  /\ wData[wObjs[o].id] = None /\ Finalizable(wObjs[o])
  /\ wFinal' = wFinal \cup {o}
  /\ wOwner' = [wOwner EXCEPT ![wObjs[o].id] = o]
  /\ wData' = [wData EXCEPT ![wObjs[o].id] = Some(default)]
  /\ wLast' = WeakDone("setdefault", o, Some(default), FALSE, WeakLen(wData), WeakLen(wData'))
  /\ UNCHANGED wObjs
  /\ WeakFrame

\* __delitem__: self.data.__delitem__(id(key)); KeyError if absent. The
\* finalize() callback of the object stays registered.
WeakDelitemCall(o) ==
  /\ o \in Alive
  /\ wData' = IF wData[wObjs[o].id] # None THEN [wData EXCEPT ![wObjs[o].id] = None] ELSE wData
  /\ wLast' = WeakDone("del", o, None, wData[wObjs[o].id] = None, WeakLen(wData), WeakLen(wData'))
  /\ UNCHANGED <<wObjs, wFinal, wOwner>>
  /\ WeakFrame

\* get: self.data.get(id(key), default)
WeakGet(o) ==
  /\ o \in Alive
  /\ wLast' = WeakDone("get", o, wData[wObjs[o].id], FALSE, WeakLen(wData), WeakLen(wData))
  /\ UNCHANGED <<wObjs, wData, wFinal, wOwner>>
  /\ WeakFrame

\* The object becomes unreachable and is collected: its finalize()
\* callbacks run (_weak_delitem(obj_id)) before its address is free again.
Collect(o) ==
  /\ o \in Alive
  /\ wObjs' = [wObjs EXCEPT ![o].state = "collected"]
  /\ wData' = IF o \in wFinal THEN WeakDelitem(wData, wObjs[o].id) ELSE wData
  /\ wFinal' = wFinal \ {o}
  /\ wLast' = WeakDone("collect", o, wData[wObjs[o].id], FALSE, WeakLen(wData), WeakLen(wData'))
  /\ UNCHANGED wOwner
  /\ WeakFrame

WeakNext ==
  \/ \E id \in Addrs, refable \in BOOLEAN : NewObject(id, refable)
  \/ \E o \in 1..MaxObjs, value \in Dom : WeakSetitemStore(o, value)
  \/ \E o \in 1..MaxObjs : WeakSetitemTypeError(o)
  \/ \E o \in 1..MaxObjs, default \in Dom : WeakSetdefaultTypeError(o, default)
  \/ \E o \in 1..MaxObjs, default \in Dom : WeakSetdefaultPresent(o, default)
  \/ \E o \in 1..MaxObjs, default \in Dom : WeakSetdefaultAbsent(o, default)
  \/ \E o \in 1..MaxObjs : WeakDelitemCall(o)
  \/ \E o \in 1..MaxObjs : WeakGet(o)
  \/ \E o \in 1..MaxObjs : Collect(o)

\* ------------------------------------------------------ metadata of values

\* The objects of a decorated call: its input and one other object.
MetaObjs == {"x", "y"}

\* An object's type takes an attribute ("attr": a class instance), takes
\* no attribute but a weak reference ("weak": a set), or neither ("none":
\* a list, a tuple).
MetaKinds == {"attr", "weak", "none"}

\* Metadata names; "obj" is also the name of setmeta's own parameter.
MetaKeys == {"a", "obj"}

\* A metadata dict: name -> optional value.
MetaDicts == [MetaKeys -> Optional(Dom)]
EmptyMeta == [k \in MetaKeys |-> None]

\* dict.update
MetaUpdate(old, new) == [k \in MetaKeys |-> IF new[k] # None THEN new[k] ELSE old[k]]

\* The local and the global metadata of all objects.
MetaStore(local, global) == [local |-> local, global |-> global]

\* getmeta: the global dict's copy, updated with the local metadata.
GetMeta(st, o) ==
  MetaUpdate(IF st.global[o] # None THEN st.global[o][1] ELSE EmptyMeta,
             IF st.local[o] # None THEN st.local[o][1] ELSE EmptyMeta)

\* setmeta(obj, **kwargs) raises TypeError: a keyword named obj collides
\* with the parameter; an object that takes neither an attribute nor a
\* weak reference cannot hold metadata.
SetMetaRaises(kinds, o, kwargs) ==
  \/ kwargs["obj"] # None
  \/ kinds[o] = "none"

\* A mutant of SetMeta: the stored dict is replaced by the given names.
SetMetaReplaces(st, kinds, o, kwargs) ==
  IF kwargs["obj"] # None \/ kinds[o] = "none" THEN st
  ELSE IF kinds[o] = "attr"
    THEN MetaStore([st.local EXCEPT ![o] = Some(kwargs)], st.global)
    ELSE MetaStore(st.local, [st.global EXCEPT ![o] = Some(kwargs)])

\* setmeta: store locally (set_local_metadata), else in the global dict
\* (setdefault, then update).
SetMeta(st, kinds, o, kwargs) ==
  IF SetMetaRaises(kinds, o, kwargs) THEN st
  ELSE IF kinds[o] = "attr"
    THEN MetaStore([st.local EXCEPT ![o] =
                      Some(MetaUpdate(IF st.local[o] # None THEN st.local[o][1] ELSE EmptyMeta, kwargs))],
                   st.global)
    ELSE MetaStore(st.local,
                   [st.global EXCEPT ![o] =
                      Some(MetaUpdate(IF st.global[o] # None THEN st.global[o][1] ELSE EmptyMeta, kwargs))])

\* A mutant of ClearMetaStore: only the global entry is deleted.
ClearMetaGlobalOnly(st, o) == MetaStore(st.local, [st.global EXCEPT ![o] = None])

\* clearmeta: del _global_metadata_dict[obj] (a KeyError is passed over),
\* then clear_local_metadata: the local dict, if there is one, is emptied.
ClearMetaStore(st, o) ==
  MetaStore([st.local EXCEPT ![o] = IF st.local[o] # None THEN Some(EmptyMeta) ELSE None],
            [st.global EXCEPT ![o] = None])

\* A mutant of GetMetaResult: the global dict is returned as it is stored.
GetMetaResultStored(st, o) ==
  IF st.global[o] # None /\ st.local[o] = None THEN "global" ELSE "copy"

\* getmeta: which dict the caller gets: _global_metadata_dict.get(obj,
\* {}).copy() is a new dict, whatever is stored.
GetMetaResult(st, o) == "copy"

\* A mutant of KeepMeta: the output is returned as the function made it.
KeepMetaNotCopied(st, kinds, inp, out) == st

\* keepmeta's wrapper, f returning out for inp:
\*   metadata = getmeta(input); output = f(input); setmeta(output, **metadata)
KeepMeta(st, kinds, inp, out) == SetMeta(st, kinds, out, GetMeta(st, inp))

\* What the last call did: op, the object passed, the object returned,
\* the metadata read from the input, whether it raised.
MetaDone(op, inp, out, meta, raised) ==
  [op |-> op, inp |-> inp, out |-> out, meta |-> meta, raised |-> raised]

MetaIdle ==
  /\ mKind = [o \in MetaObjs |-> "attr"]
  /\ mLocal = [o \in MetaObjs |-> None]
  /\ mGlobal = [o \in MetaObjs |-> None]
  /\ mLast = MetaDone("none", "x", "x", EmptyMeta, FALSE)

\* Objects of any kind, none of them with metadata yet.
MetaInit ==
  /\ mKind \in [MetaObjs -> MetaKinds]
  /\ mLocal = [o \in MetaObjs |-> None]
  /\ mGlobal = [o \in MetaObjs |-> None]
  /\ mLast = MetaDone("none", "x", "x", EmptyMeta, FALSE)

MetaFrame == UNCHANGED <<pipeVars, cacheVars, queryVars, weakVars, lockVars, ctxVars, mapVars, reduceVars, bindVars, shiftVars, synthVars, instVars, identVars, subVars, multiVars, ctupVars, resVars>>

\* setmeta(o, **kwargs)
SetMetaCall(o, kwargs) ==
  /\ mLocal' = SetMeta(MetaStore(mLocal, mGlobal), mKind, o, kwargs).local
  /\ mGlobal' = SetMeta(MetaStore(mLocal, mGlobal), mKind, o, kwargs).global
  /\ mLast' = MetaDone("setmeta", o, o, kwargs, SetMetaRaises(mKind, o, kwargs))
  /\ UNCHANGED mKind
  /\ MetaFrame

\* o.attrs[k] = v, written by the caller on the local dict.
SetAttrsItem(o, k, v) ==
  /\ mLocal[o] # None
  /\ mLocal' = [mLocal EXCEPT ![o] = Some([mLocal[o][1] EXCEPT ![k] = Some(v)])]
  /\ mLast' = MetaDone("attrs", o, o, EmptyMeta, FALSE)
  /\ UNCHANGED <<mKind, mGlobal>>
  /\ MetaFrame

\* clearmeta(o): the global entry is deleted, the local dict is emptied.
ClearMeta(o) ==
  /\ mGlobal' = ClearMetaStore(MetaStore(mLocal, mGlobal), o).global
  /\ mLocal' = ClearMetaStore(MetaStore(mLocal, mGlobal), o).local
  /\ mLast' = MetaDone("clearmeta", o, o, EmptyMeta, FALSE)
  /\ UNCHANGED mKind
  /\ MetaFrame

\* keepmeta(f)(inp), where f returns out (inp itself or another object):
\* metadata = getmeta(input); output = f(input); setmeta(output, **metadata).
KeepMetaCall(inp, out) ==
  /\ mLocal' = KeepMeta(MetaStore(mLocal, mGlobal), mKind, inp, out).local
  /\ mGlobal' = KeepMeta(MetaStore(mLocal, mGlobal), mKind, inp, out).global
  /\ mLast' = MetaDone("keepmeta", inp, out, GetMeta(MetaStore(mLocal, mGlobal), inp),
                       SetMetaRaises(mKind, out, GetMeta(MetaStore(mLocal, mGlobal), inp)))
  /\ UNCHANGED mKind
  /\ MetaFrame

\* getmeta(o): the caller gets the merged dict.
GetMetaCall(o) ==
  /\ mLast' = MetaDone("getmeta", o, o, GetMeta(MetaStore(mLocal, mGlobal), o), FALSE)
  /\ UNCHANGED <<mKind, mLocal, mGlobal>>
  /\ MetaFrame

\* d[k] = v on the dict d that the last getmeta returned.
MutateReturned(k, v) ==
  /\ mLast.op \in {"getmeta", "mutate"}
  /\ mLast' = MetaDone("mutate", mLast.inp, mLast.out, [mLast.meta EXCEPT ![k] = Some(v)], FALSE)
  /\ mGlobal' = IF GetMetaResult(MetaStore(mLocal, mGlobal), mLast.inp) = "global"
                  THEN [mGlobal EXCEPT ![mLast.inp] = Some([mLast.meta EXCEPT ![k] = Some(v)])]
                  ELSE mGlobal
  /\ UNCHANGED <<mKind, mLocal>>
  /\ MetaFrame

MetaNext ==
  \/ \E o \in MetaObjs : GetMetaCall(o)
  \/ \E k \in MetaKeys, v \in Dom : MutateReturned(k, v)
  \/ \E o \in MetaObjs, kwargs \in MetaDicts : SetMetaCall(o, kwargs)
  \/ \E o \in MetaObjs, k \in MetaKeys, v \in Dom : SetAttrsItem(o, k, v)
  \/ \E o \in MetaObjs : ClearMeta(o)
  \/ \E inp \in MetaObjs, out \in MetaObjs : KeepMetaCall(inp, out)

\* ------------------------------------------------------------------ locks

\* One lock path and one lock key; the threads are Threads. A lock object
\* (a diskcache.RLock or a filelock.FileLock) is named after the thread that
\* created it. 0 stands for no thread and no object.
LockObjs == Threads

\* A mutant of LockTarget: every lock object locks a file (a key) of its own.
LockTargetPerObject(o) == o

\* What a lock object locks: the file lock_path / "<lock_key>.lock", or the
\* cache key lock_key in the cache at lock_path: the same for all objects.
LockTarget(o) == 0

LockTargets == {0} \cup LockObjs

NoEntry == [owner |-> 0, count |-> 0]

\* with-blocks of thread t on lock object o that t is inside
Depth(stack, o) == Cardinality({i \in 1..Len(stack) : stack[i] = o})

Inside(t) == Len(lStack[t]) > 0

\* diskcache.RLock.acquire succeeds: the entry is free or owned by this
\* thread. FileLock.acquire succeeds: this thread already holds the object,
\* or no open file holds the OS lock on the lock file.
CanAcquire(t) ==
  IF lKind = "diskcache"
    THEN lEntry[LockTarget(lInst[t])].count = 0 \/ lEntry[LockTarget(lInst[t])].owner = t
    ELSE Depth(lStack[t], lInst[t]) > 0 \/ lFlock[LockTarget(lInst[t])] = None

LockIdle ==
  /\ lKind = "file"
  /\ lRegistry = 0
  /\ lEntry = [k \in LockTargets |-> NoEntry]
  /\ lFlock = [k \in LockTargets |-> None]
  /\ lPc = [t \in Threads |-> "idle"]
  /\ lInst = [t \in Threads |-> 0]
  /\ lStack = [t \in Threads |-> <<>>]

\* No lock object exists yet and no thread holds a lock.
LockInit ==
  /\ lKind \in {"diskcache", "file"}
  /\ lRegistry = 0
  /\ lEntry = [k \in LockTargets |-> NoEntry]
  /\ lFlock = [k \in LockTargets |-> None]
  /\ lPc = [t \in Threads |-> "idle"]
  /\ lInst = [t \in Threads |-> 0]
  /\ lStack = [t \in Threads |-> <<>>]

LockFrame == UNCHANGED <<pipeVars, cacheVars, queryVars, weakVars, metaVars, ctxVars, mapVars, reduceVars, bindVars, shiftVars, synthVars, instVars, identVars, subVars, multiVars, ctupVars, resVars>>

\* A thread may start another acquisition: FileDataset nests MaxDepth
\* with-blocks on one key (add -> set -> delete).
MayAcquire(t) == lPc[t] = "idle" /\ Len(lStack[t]) < MaxDepth

\* DiskCacheRLock(lock_path, lock_key): a new RLock on the cache key.
DiskCacheCreateLock(t) ==
  /\ MayAcquire(t) /\ lKind = "diskcache"
  /\ lInst' = [lInst EXCEPT ![t] = t]
  /\ lPc' = [lPc EXCEPT ![t] = "ready"]
  /\ UNCHANGED <<lKind, lRegistry, lEntry, lFlock, lStack>>
  /\ LockFrame

\* FileRLock._create_lock: return _file_rlocks[lock_path]
FileCreateLockHit(t) ==
  /\ MayAcquire(t) /\ lKind = "file"
  /\ lRegistry # 0
  /\ lInst' = [lInst EXCEPT ![t] = lRegistry]
  /\ lPc' = [lPc EXCEPT ![t] = "ready"]
  /\ UNCHANGED <<lKind, lRegistry, lEntry, lFlock, lStack>>
  /\ LockFrame

\* FileRLock._create_lock: KeyError; the directory is made next.
FileCreateLockMiss(t) ==
  /\ MayAcquire(t) /\ lKind = "file"
  /\ lRegistry = 0
  /\ lPc' = [lPc EXCEPT ![t] = "creating"]
  /\ UNCHANGED <<lKind, lRegistry, lEntry, lFlock, lInst, lStack>>
  /\ LockFrame

\* FileRLock._create_lock: lock = FileLock(...); _file_rlocks[lock_path] = lock
FileCreateLockInsert(t) ==
  /\ lPc[t] = "creating"
  /\ lRegistry' = t
  /\ lInst' = [lInst EXCEPT ![t] = t]
  /\ lPc' = [lPc EXCEPT ![t] = "ready"]
  /\ UNCHANGED <<lKind, lEntry, lFlock, lStack>>
  /\ LockFrame

\* with lock: again, through the instance of the innermost block.
LockSameInstance(t) ==
  /\ MayAcquire(t) /\ Inside(t)
  /\ lInst' = [lInst EXCEPT ![t] = lStack[t][Len(lStack[t])]]
  /\ lPc' = [lPc EXCEPT ![t] = "ready"]
  /\ UNCHANGED <<lKind, lRegistry, lEntry, lFlock, lStack>>
  /\ LockFrame

\* __enter__: self.lock.__enter__() acquires and the block is entered.
LockEnter(t) ==
  /\ lPc[t] \in {"ready", "waiting"}
  /\ CanAcquire(t)
  /\ lStack' = [lStack EXCEPT ![t] = Append(@, lInst[t])]
  /\ lEntry' = IF lKind = "diskcache"
                 THEN [lEntry EXCEPT ![LockTarget(lInst[t])] =
                         [owner |-> t, count |-> @.count + 1]]
                 ELSE lEntry
  /\ lFlock' = IF lKind = "file" /\ Depth(lStack[t], lInst[t]) = 0
                 THEN [lFlock EXCEPT ![LockTarget(lInst[t])] = Some([obj |-> lInst[t], thread |-> t])]
                 ELSE lFlock
  /\ lPc' = [lPc EXCEPT ![t] = "idle"]
  /\ UNCHANGED <<lKind, lRegistry, lInst>>
  /\ LockFrame

\* __enter__: the lock is held elsewhere; acquire() polls.
LockWait(t) ==
  /\ lPc[t] = "ready"
  /\ ~CanAcquire(t)
  /\ lPc' = [lPc EXCEPT ![t] = "waiting"]
  /\ UNCHANGED <<lKind, lRegistry, lEntry, lFlock, lInst, lStack>>
  /\ LockFrame

\* FileLock.acquire gives up after timeout seconds and raises Timeout; the
\* block is not entered.
FileLockTimeout(t) ==
  /\ lPc[t] = "waiting" /\ lKind = "file"
  /\ ~CanAcquire(t)
  /\ lPc' = [lPc EXCEPT ![t] = "idle"]
  /\ UNCHANGED <<lKind, lRegistry, lEntry, lFlock, lInst, lStack>>
  /\ LockFrame

\* __exit__: self.lock.__exit__() releases; the innermost block is left.
LockExit(t) ==
  /\ lPc[t] = "idle" /\ Inside(t)
  /\ lStack' = [lStack EXCEPT ![t] = SubSeq(@, 1, Len(@) - 1)]
  /\ lEntry' = IF lKind = "diskcache"
                 THEN [lEntry EXCEPT ![LockTarget(lStack[t][Len(lStack[t])])] =
                         [owner |-> @.owner, count |-> @.count - 1]]
                 ELSE lEntry
  /\ lFlock' = IF lKind = "file" /\ Depth(lStack[t], lStack[t][Len(lStack[t])]) = 1
                 THEN [lFlock EXCEPT ![LockTarget(lStack[t][Len(lStack[t])])] = None]
                 ELSE lFlock
  /\ UNCHANGED <<lKind, lRegistry, lPc, lInst>>
  /\ LockFrame

LockNext ==
  \/ \E t \in Threads : DiskCacheCreateLock(t)
  \/ \E t \in Threads : FileCreateLockHit(t)
  \/ \E t \in Threads : FileCreateLockMiss(t)
  \/ \E t \in Threads : FileCreateLockInsert(t)
  \/ \E t \in Threads : LockSameInstance(t)
  \/ \E t \in Threads : LockEnter(t)
  \/ \E t \in Threads : LockWait(t)
  \/ \E t \in Threads : FileLockTimeout(t)
  \/ \E t \in Threads : LockExit(t)

\* ------------------------------------------------ run context of components

\* A component class and an instance of it.
CtxObjs == {"cls", "inst"}

\* Context names: one field of RunContext (xOption says which) and a name
\* that is no field of RunContext.
CtxNames == {"option", "invalid_var"}
CtxVals == {1, 2}

\* A context dict: name -> optional value.
CtxDicts == {c \in [CtxNames -> Optional(CtxVals)] : c["invalid_var"] # Some(2)}
EmptyCtx == [n \in CtxNames |-> None]

\* dict.update
CtxUpdate(old, new) == [n \in CtxNames |-> IF new[n] # None THEN new[n] ELSE old[n]]

\* The class attribute and the global dict together.
CtxStore(attr, global) == [attr |-> attr, global |-> global]

\* A mutant of StrictRejects: _strict is ignored and nothing is rejected.
StrictRejectsNothing(strict, kwargs) == FALSE

\* setcontext: in strict mode a name that is no field of RunContext is a
\* ValueError.
StrictRejects(strict, kwargs) == strict /\ kwargs["invalid_var"] # None

\* _setcontext(obj): context = getattr(obj, RUN_CONTEXT_DUNDER), found on
\* the class for the class and for its instances; without the attribute,
\* the entry of obj in the global dict (setdefault); context.update(kwargs).
SetContextStore(st, obj, kwargs) ==
  IF st.attr # None
    THEN CtxStore(Some(CtxUpdate(st.attr[1], kwargs)), st.global)
    ELSE CtxStore(st.attr,
                  [st.global EXCEPT ![obj] =
                     Some(CtxUpdate(IF st.global[obj] # None THEN st.global[obj][1] ELSE EmptyCtx, kwargs))])

\* getcontext(obj): context = _global_context_dict.get(obj, {});
\* context.update(getattr(obj, RUN_CONTEXT_DUNDER, {})); return context
GetContext(st, obj) ==
  CtxUpdate(IF st.global[obj] # None THEN st.global[obj][1] ELSE EmptyCtx,
            IF st.attr # None THEN st.attr[1] ELSE EmptyCtx)

\* getcontext updates the dict it got from the global dict: the entry of
\* obj itself, if there is one.
GetContextStore(st, obj) ==
  CtxStore(st.attr,
           IF st.global[obj] # None
             THEN [st.global EXCEPT ![obj] = Some(GetContext(st, obj))]
             ELSE st.global)

\* What the last call did: op, its object, _strict and the keyword
\* arguments (setcontext), what it raised ("" if nothing), the context it
\* resolved (getcontext, from_obj) and the store before the call.
CtxDone(op, obj, strict, kwargs, raised, ctx, before) ==
  [op |-> op, obj |-> obj, strict |-> strict, kwargs |-> kwargs,
   raised |-> raised, ctx |-> ctx, before |-> before]

CtxIdle ==
  /\ xOption = "num_workers"
  /\ xAttr = None
  /\ xGlobal = [o \in CtxObjs |-> None]
  /\ xLast = CtxDone("none", "cls", TRUE, EmptyCtx, "", EmptyCtx,
                     CtxStore(None, [o \in CtxObjs |-> None]))

\* No context anywhere: the class has no context attribute and the global
\* dict is empty.
CtxInit ==
  /\ xOption \in {"num_workers", "max_workers"}
  /\ xAttr = None
  /\ xGlobal = [o \in CtxObjs |-> None]
  /\ xLast = CtxDone("none", "cls", TRUE, EmptyCtx, "", EmptyCtx,
                     CtxStore(None, [o \in CtxObjs |-> None]))

CtxFrame == UNCHANGED <<pipeVars, cacheVars, queryVars, weakVars, metaVars, lockVars, mapVars, reduceVars, bindVars, shiftVars, synthVars, instVars, identVars, subVars, multiVars, ctupVars, resVars>>

\* The class is given a class-level context attribute:
\* _etl_run_context_ = {...}, in its body or by assignment.
ClassContextAttribute(ctx) ==
  /\ xAttr = None
  /\ xAttr' = Some(ctx)
  /\ xLast' = CtxDone("attribute", "cls", TRUE, ctx, "", EmptyCtx, CtxStore(xAttr, xGlobal))
  /\ UNCHANGED <<xOption, xGlobal>>
  /\ CtxFrame

\* setcontext(_strict, **kwargs) raises ValueError; no decorator is made
\* and no object is reached.
SetContextInvalid(strict, kwargs) ==
  /\ StrictRejects(strict, kwargs)
  /\ xLast' = CtxDone("setcontext", "cls", strict, kwargs, "ValueError", EmptyCtx, CtxStore(xAttr, xGlobal))
  /\ UNCHANGED <<xOption, xAttr, xGlobal>>
  /\ CtxFrame

\* setcontext(_strict, **kwargs)(obj)
SetContext(obj, strict, kwargs) ==
  /\ ~StrictRejects(strict, kwargs)
  /\ xAttr' = SetContextStore(CtxStore(xAttr, xGlobal), obj, kwargs).attr
  /\ xGlobal' = SetContextStore(CtxStore(xAttr, xGlobal), obj, kwargs).global
  /\ xLast' = CtxDone("setcontext", obj, strict, kwargs, "", EmptyCtx, CtxStore(xAttr, xGlobal))
  /\ UNCHANGED xOption
  /\ CtxFrame

\* getcontext(obj)
GetContextCall(obj) ==
  /\ xGlobal' = GetContextStore(CtxStore(xAttr, xGlobal), obj).global
  /\ xLast' = CtxDone("getcontext", obj, TRUE, EmptyCtx, "",
                      GetContext(CtxStore(xAttr, xGlobal), obj), CtxStore(xAttr, xGlobal))
  /\ UNCHANGED <<xOption, xAttr>>
  /\ CtxFrame

\* RunContext.from_obj(obj): cls(**getcontext(obj)); a name that is no
\* field of RunContext is a TypeError of the constructor.
FromObj(obj) ==
  /\ xGlobal' = GetContextStore(CtxStore(xAttr, xGlobal), obj).global
  /\ xLast' = CtxDone("from_obj", obj, TRUE, EmptyCtx,
                      IF GetContext(CtxStore(xAttr, xGlobal), obj)["invalid_var"] # None
                        THEN "TypeError" ELSE "",
                      GetContext(CtxStore(xAttr, xGlobal), obj), CtxStore(xAttr, xGlobal))
  /\ UNCHANGED <<xOption, xAttr>>
  /\ CtxFrame

\* The caller updates the mapping that getcontext(obj) has just returned:
\* the dict stored in the global dict if obj has an entry (get returns the
\* stored value itself), a new dict otherwise.
MutateResolved(kwargs) ==
  /\ xLast.op = "getcontext"
  /\ xGlobal' = IF xGlobal[xLast.obj] # None
                  THEN [xGlobal EXCEPT ![xLast.obj] = Some(CtxUpdate(@[1], kwargs))]
                  ELSE xGlobal
  /\ xLast' = CtxDone("mutate", xLast.obj, TRUE, kwargs, "", EmptyCtx, CtxStore(xAttr, xGlobal))
  /\ UNCHANGED <<xOption, xAttr>>
  /\ CtxFrame

CtxNext ==
  \/ \E kwargs \in CtxDicts : MutateResolved(kwargs)
  \/ \E ctx \in CtxDicts : ClassContextAttribute(ctx)
  \/ \E strict \in BOOLEAN, kwargs \in CtxDicts : SetContextInvalid(strict, kwargs)
  \/ \E obj \in CtxObjs, strict \in BOOLEAN, kwargs \in CtxDicts : SetContext(obj, strict, kwargs)
  \/ \E obj \in CtxObjs : GetContextCall(obj)
  \/ \E obj \in CtxObjs : FromObj(obj)

\* ------------------------------------------------ RunContext.map, by call

\* The values of num_workers and max_workers: any int, negative ones too.
WorkerInts == -1..MaxWorkers

\* The items fun has not been called on yet.
NotStarted(items, log) == {i \in 1..Len(items) : \A j \in 1..Len(log) : log[j] # i}

MapIdle ==
  /\ aNum = None
  /\ aMax = None
  /\ aItems = <<>>
  /\ aPc = "idle"
  /\ aWorkers = None
  /\ aPool = None
  /\ aLog = <<>>
  /\ aRunning = {}

\* RunContext(num_workers=..., max_workers=...)
MapInit ==
  /\ aNum \in Optional(WorkerInts)
  /\ aMax \in Optional(WorkerInts)
  /\ aItems = <<>>
  /\ aPc = "idle"
  /\ aWorkers = None
  /\ aPool = None
  /\ aLog = <<>>
  /\ aRunning = {}

MapFrame == UNCHANGED <<pipeVars, cacheVars, queryVars, weakVars, metaVars, lockVars, ctxVars, reduceVars, bindVars, shiftVars, synthVars, instVars, identVars, subVars, multiVars, ctupVars, resVars>>

\* map(fun, container): num_workers = self.get_num_workers(), 1 if None;
\* the parallel branch makes Parallel(n_jobs=num_workers).
MapCall(items) ==
  /\ aPc \in {"idle", "returned", "raised"}
  /\ aItems' = items
  /\ aWorkers' = GetNumWorkers(aNum, aMax)
  /\ aPool' = IF IsParallel(aNum, aMax, items) THEN Some(EffectiveWorkers(aNum, aMax)) ELSE None
  /\ aPc' = IF IsParallel(aNum, aMax, items) THEN "parallel" ELSE "serial"
  /\ aLog' = <<>>
  /\ aRunning' = {}
  /\ UNCHANGED <<aNum, aMax>>
  /\ MapFrame

\* fun is called on the next item: the list comprehension calls it when
\* the previous call has returned; the pool dispatches in submission order
\* and keeps at most n_jobs calls running.
MapItemStart(i) ==
  /\ aPc \in {"serial", "parallel"}
  /\ i \in NotStarted(aItems, aLog)
  /\ \A j \in NotStarted(aItems, aLog) : i <= j
  /\ IF aPc = "serial" THEN aRunning = {} ELSE Cardinality(aRunning) < aPool[1]
  /\ aLog' = Append(aLog, i)
  /\ aRunning' = aRunning \cup {i}
  /\ UNCHANGED <<aNum, aMax, aItems, aPc, aWorkers, aPool>>
  /\ MapFrame

\* A call of fun returns.
MapItemFinish(i) ==
  /\ aPc \in {"serial", "parallel"}
  /\ i \in aRunning
  /\ aItems[i]
  /\ aRunning' = aRunning \ {i}
  /\ UNCHANGED <<aNum, aMax, aItems, aPc, aWorkers, aPool, aLog>>
  /\ MapFrame

\* A call of fun raises: map raises, no further item is started.
MapItemRaise(i) ==
  /\ aPc \in {"serial", "parallel"}
  /\ i \in aRunning
  /\ ~aItems[i]
  /\ aRunning' = {}
  /\ aPc' = "raised"
  /\ UNCHANGED <<aNum, aMax, aItems, aWorkers, aPool, aLog>>
  /\ MapFrame

\* return tuple(results)
MapReturn ==
  /\ aPc \in {"serial", "parallel"}
  /\ NotStarted(aItems, aLog) = {}
  /\ aRunning = {}
  /\ aPc' = "returned"
  /\ UNCHANGED <<aNum, aMax, aItems, aWorkers, aPool, aLog, aRunning>>
  /\ MapFrame

MapNext ==
  \/ \E items \in TuplesUpTo(BOOLEAN, MaxLen) : MapCall(items)
  \/ \E i \in 1..MaxLen : MapItemStart(i)
  \/ \E i \in 1..MaxLen : MapItemFinish(i)
  \/ \E i \in 1..MaxLen : MapItemRaise(i)
  \/ MapReturn

\* ----------------------------------------------------------------- reduce

\* A value that flows through the wrapper: a single value or a tuple.
Shaped(tuple, vals) == [tuple |-> tuple, vals |-> vals]

RECURSIVE SumSeq(_)
SumSeq(s) == IF s = <<>> THEN 0 ELSE s[1] + SumSeq(Tail(s))

\* The reduce transform of the tests: (sum(inp),), a one-element tuple for
\* a tuple of any length; a single value counts as its own sum.
ReduceTransformSum(data) == Shaped(TRUE, <<SumSeq(data.vals)>>)

\* The wrapped multi-key source: source[key] for a single key, one value
\* per key in key order for a tuple; KeyError (ok = FALSE) if a key is
\* missing.
MultiKeyGetitem(src, key) ==
  IF key.tuple
    THEN LET r == SerialMap("plain", src, 0, key.vals)
         IN [ok |-> r.status = "tuple",
             data |-> Shaped(TRUE, [i \in 1..Len(r.vals) |-> r.vals[i].val])]
    ELSE LET o == PlainGetitem(src, key.vals[1])
         IN [ok |-> o.ok, data |-> Shaped(FALSE, <<o.val>>)]

\* What a get did: whether it returned, its result, and the inputs the
\* transform was called with, in call order.
Reduced(ok, res, applied) == [ok |-> ok, res |-> res, applied |-> applied]

\* A mutant of ReduceGetitem: the transform is called once per element, as
\* by the wrapper of source >> transform.
ReduceGetitemPerElement(src, key) ==
  LET got == MultiKeyGetitem(src, key)
      each == [i \in 1..Len(got.data.vals) |-> Shaped(FALSE, <<got.data.vals[i]>>)]
  IN IF ~got.ok THEN Reduced(FALSE, got.data, <<>>)
     ELSE Reduced(TRUE,
                  Shaped(key.tuple, [i \in 1..Len(each) |-> ReduceTransformSum(each[i]).vals[1]]),
                  each)

\* _ReduceTransform.__getitem__:
\*   data = self._datasource[key]; res = self._transform(data); return res
ReduceGetitem(src, key) ==
  LET got == MultiKeyGetitem(src, key)
  IN IF ~got.ok THEN Reduced(FALSE, got.data, <<>>)
     ELSE Reduced(TRUE, ReduceTransformSum(got.data), <<got.data>>)

ReduceDone(op, key, out) == [op |-> op, key |-> key, out |-> out]

ReduceIdle ==
  /\ rSource = [k \in Dom |-> None]
  /\ rLast = ReduceDone("none", Shaped(FALSE, <<0>>), Reduced(FALSE, Shaped(FALSE, <<0>>), <<>>))

ReduceInit ==
  /\ rSource \in [Dom -> Optional(Dom)]
  /\ rLast = ReduceDone("none", Shaped(FALSE, <<0>>), Reduced(FALSE, Shaped(FALSE, <<0>>), <<>>))

ReduceFrame == UNCHANGED <<pipeVars, cacheVars, queryVars, weakVars, metaVars, lockVars, ctxVars, mapVars, bindVars, shiftVars, synthVars, instVars, identVars, subVars, multiVars, ctupVars, resVars>>

\* reduce(S, T)(...)[key] with a single key
ReduceGetSingle(key) ==
  /\ rLast' = ReduceDone("reduce", Shaped(FALSE, <<key>>), ReduceGetitem(rSource, Shaped(FALSE, <<key>>)))
  /\ UNCHANGED rSource
  /\ ReduceFrame

\* reduce(S, T)(...)[keys] with a tuple of keys
ReduceGetTuple(keys) ==
  /\ rLast' = ReduceDone("reduce", Shaped(TRUE, keys), ReduceGetitem(rSource, Shaped(TRUE, keys)))
  /\ UNCHANGED rSource
  /\ ReduceFrame

\* (S >> T)(...)[keys] with a tuple of keys, for comparison: the transform
\* is called on every element.
RshiftGetTuple(keys) ==
  /\ rLast' = ReduceDone("rshift", Shaped(TRUE, keys), ReduceGetitemPerElement(rSource, Shaped(TRUE, keys)))
  /\ UNCHANGED rSource
  /\ ReduceFrame

ReduceNext ==
  \/ \E key \in Dom : ReduceGetSingle(key)
  \/ \E keys \in TuplesUpTo(Dom, MaxLen) : ReduceGetTuple(keys)
  \/ \E keys \in TuplesUpTo(Dom, MaxLen) : RshiftGetTuple(keys)

\* ------------------------------------------------ building query wrappers

\* The values of by: None, the field names "x" and "y", the tests'
\* callable, and a value that is neither (an int, a list).
ByValues == {"none", "x", "y", "callable", "other"}

\* query(ds, by=by): TypeError unless by is None, a str or callable.
ByIsValid(by) == by \in {"none", "x", "y", "callable"}

\* What a call did: op ("build" or "get"), by, the key, the kwargs query()
\* was called with, what query() returned, the value returned, and what
\* was raised ("" if nothing).
BindDone(op, by, key, kwargs, ids, val, raised) ==
  [op |-> op, by |-> by, key |-> key, kwargs |-> kwargs, ids |-> ids, val |-> val, raised |-> raised]

BindNone == BindDone("none", "none", ScalarKey(0), Kwargs(None, None), 0, 0, "")

BindIdle ==
  /\ bBuilt = {}
  /\ bLast = BindNone

BindInit == BindIdle

BindFrame == UNCHANGED <<pipeVars, cacheVars, queryVars, weakVars, metaVars, lockVars, ctxVars, mapVars, reduceVars, shiftVars, synthVars, instVars, identVars, subVars, multiVars, ctupVars, resVars>>

\* query(ds, by=by) returns the wrapper class.
QueryBuild(by) ==
  /\ ByIsValid(by)
  /\ bBuilt' = bBuilt \cup {by}
  /\ bLast' = BindDone("build", by, ScalarKey(0), Kwargs(None, None), 0, 0, "")
  /\ BindFrame

\* query(ds, by=by) raises TypeError: no wrapper class is returned.
QueryBuildInvalid(by) ==
  /\ ~ByIsValid(by)
  /\ bLast' = BindDone("build", by, ScalarKey(0), Kwargs(None, None), 0, 0, "TypeError")
  /\ UNCHANGED bBuilt
  /\ BindFrame

\* wrapper(...)[key] on a built wrapper without a resolution cache: the
\* key is bound, data_id = query(**kwargs), result = source[data_id].
QueryBoundGet(by, key) ==
  /\ by \in bBuilt
  /\ key \in KeysOf(by)
  /\ bLast' = BindDone("get", by, key, Bind(by, key), QueryFun(Bind(by, key)),
                       UncachedGetitem(by, key), "")
  /\ UNCHANGED bBuilt
  /\ BindFrame

BindNext ==
  \/ \E by \in ByValues : QueryBuild(by)
  \/ \E by \in ByValues : QueryBuildInvalid(by)
  \/ \E by \in ByValues, key \in HighKeys : QueryBoundGet(by, key)

\* ------------------------------------- the >> operator (abc.py, metaclasses)

Vals == 0..MaxVal

\* An operand: its category under the runtime protocols ("transform": it, or
\* what it constructs, has __call__; "source": has __getitem__; "other":
\* neither), its form ("class", or "instance": an instance, a plain function
\* or a partial, none of which has the operator methods), what it computes,
\* and for a composed class its index in eBuilt.
Operand(cat, form, fn, ix) == [cat |-> cat, form |-> form, fn |-> fn, ix |-> ix]

NoOperand == Operand("other", "instance", "none", 0)

\* The classes, instances and other values the program starts with.
\* The two transforms do not commute, nor do they commute with the source.
BaseOperands ==
  { Operand("transform", "class", "inc", 0),
    Operand("transform", "class", "dbl", 0),
    Operand("transform", "instance", "dbl", 0),
    Operand("source", "class", "src", 0),
    Operand("source", "instance", "src", 0),
    Operand("other", "instance", "junk", 0) }

\* The tests' transforms: TestTransform.__call__
TransformFn(fn, x) == IF fn = "inc" THEN (x + 1) % (MaxVal + 1) ELSE (2 * x) % (MaxVal + 1)

\* The tests' source: __getitem__, with one key that is not present
SourceGetitem(key) == IF key = MaxVal THEN None ELSE Some((2 * key + 2) % (MaxVal + 1))

\* The tests' source: query
SourceQuery(x) == (x + 2) % (MaxVal + 1)

\* The attributes an instance of the tests' source has, and the ones every
\* composed data source defines itself.
SourceAttrs == {"__getitem__", "query"}
WrapperAttrs == {"__getitem__", "_datasource"}
AttrNames == {"__getitem__", "_datasource", "query", "absent"}

\* A composed class: which base it was concretized from and its two
\* constituents ("input": input_transform, datasource; "output": datasource,
\* output_transform; "composed": transform1, transform2; "cached" and
\* "query": datasource; "reduce": datasource, transform).
Composed(kind, first, second) == [kind |-> kind, first |-> first, second |-> second]

\* The composed class built[i] as an operand.
BuiltOperand(built, i) ==
  Operand(IF built[i].kind = "composed" THEN "transform" ELSE "source", "class", "built", i)

Operands(built) == BaseOperands \cup {BuiltOperand(built, i) : i \in 1..Len(built)}

\* What evaluating a >> b gives: a composed class, or TypeError.
Defined(cls) == [ok |-> TRUE, cls |-> cls]
DefinitionTypeError == [ok |-> FALSE, cls |-> Composed("none", NoOperand, NoOperand)]

\* A mutant of IsPipelineTransform: everything passes for a transform.
IsPipelineTransformAnything(op) == TRUE

\* _is_pipeline_transform
IsPipelineTransform(op) == op.cat = "transform"

\* The data source test of PipelineTransformMeta.__rshift__ and __rrshift__:
\* a DataSource class, instance or partial.
IsDataSource(op) == op.cat = "source"

\* A mutant of TransformDsInput: the transform is put on the output.
TransformDsInputOnOutput(transform, ds) == Composed("output", ds, transform)

\* class_transforms.transform_ds_input
TransformDsInput(transform, ds) == Composed("input", transform, ds)

\* class_transforms.transform_ds_output
TransformDsOutput(ds, transform) == Composed("output", ds, transform)

\* class_transforms.compose_transforms
ComposeTransforms(transform1, transform2) == Composed("composed", transform1, transform2)

\* PipelineTransformMeta.__rshift__
PipelineTransformMetaRshift(transform, ds_or_transform) ==
  IF IsDataSource(ds_or_transform)
    THEN Defined(TransformDsInput(transform, ds_or_transform))
  ELSE IF IsPipelineTransform(ds_or_transform)
    THEN Defined(ComposeTransforms(transform, ds_or_transform))
  ELSE DefinitionTypeError

\* PipelineTransformMeta.__rrshift__
PipelineTransformMetaRrshift(transform, ds_or_transform) ==
  IF IsDataSource(ds_or_transform)
    THEN Defined(TransformDsOutput(ds_or_transform, transform))
  ELSE IF IsPipelineTransform(ds_or_transform)
    THEN Defined(ComposeTransforms(ds_or_transform, transform))
  ELSE DefinitionTypeError

\* DataSourceMeta.__rshift__
DataSourceMetaRshift(ds, transform) ==
  IF IsPipelineTransform(transform)
    THEN Defined(TransformDsOutput(ds, transform))
    ELSE DefinitionTypeError

\* DataSourceMeta.__rrshift__
DataSourceMetaRrshift(ds, transform) ==
  IF IsPipelineTransform(transform)
    THEN Defined(TransformDsInput(transform, ds))
    ELSE DefinitionTypeError

\* The operator methods are defined on the metaclasses: only an operand that
\* is a class derived from PipelineTransform or DataSource has them.
HasOperator(op) == op.form = "class" /\ op.cat \in {"transform", "source"}

\* a >> b: the left operand's __rshift__ if it has one, else the right
\* operand's __rrshift__, else the interpreter's TypeError.
Rshift(a, b) ==
  IF HasOperator(a)
    THEN IF a.cat = "transform" THEN PipelineTransformMetaRshift(a, b)
                                ELSE DataSourceMetaRshift(a, b)
  ELSE IF HasOperator(b)
    THEN IF b.cat = "transform" THEN PipelineTransformMetaRrshift(b, a)
                                ELSE DataSourceMetaRrshift(b, a)
  ELSE DefinitionTypeError

\* What a call on an instance gives: a value, or the exception it raised.
Value(v) == [exc |-> "", val |-> v]
Raised(exc) == [exc |-> exc, val |-> 0]

\* The constituent a composed data source keeps as self._datasource.
DatasourceOf(cls) == IF cls.kind = "input" THEN cls.second ELSE cls.first

\* A mutant of HasGetattr: only the classes made by >> forward.
HasGetattrRshiftOnly(kind) == kind \in {"input", "output"}

\* The composed data sources that define __getattr__.
HasGetattr(kind) == kind \in {"input", "output", "cached", "query"}

\* getattr(instance, name): normal lookup first, then __getattr__, which
\* asks self._datasource.  The answer names the operand that has it.
RECURSIVE Getattr(_, _, _)
Getattr(built, op, name) ==
  IF op.ix = 0
    THEN [found |-> name \in SourceAttrs, at |-> op]
  ELSE IF name \in WrapperAttrs
    THEN [found |-> TRUE, at |-> op]
  ELSE IF HasGetattr(built[op.ix].kind)
    THEN Getattr(built, DatasourceOf(built[op.ix]), name)
  ELSE [found |-> FALSE, at |-> op]

\* _ComposedTransform.__call__, or the transform itself
RECURSIVE Call(_, _, _)
Call(built, op, inp) ==
  IF op.ix = 0
    THEN TransformFn(op.fn, inp)
    ELSE Call(built, built[op.ix].second, Call(built, built[op.ix].first, inp))

\* __getitem__ with a single key of the composed data sources, or of the
\* source itself.  The cache wrapper's sink is a plain mapping here: what it
\* returns is what the wrapped source returned.
RECURSIVE Getitem(_, _, _)
Getitem(built, op, key) ==
  IF op.ix = 0 THEN
    IF SourceGetitem(key) = None THEN Raised("KeyError") ELSE Value(SourceGetitem(key)[1])
  ELSE
    LET cls == built[op.ix] IN
    CASE cls.kind = "input" ->
           Getitem(built, cls.second, Call(built, cls.first, key))
      [] cls.kind \in {"output", "reduce"} ->
           LET data == Getitem(built, cls.first, key) IN
           IF data.exc # "" THEN data ELSE Value(Call(built, cls.second, data.val))
      [] cls.kind = "cached" ->
           Getitem(built, cls.first, key)
      [] OTHER ->
           IF ~Getattr(built, cls.first, "query").found
             THEN Raised("AttributeError")
             ELSE Getitem(built, cls.first, SourceQuery(key))

\* ids = ds.query(x); ds[ids]
QueryThenGetitem(built, op, x) ==
  IF ~Getattr(built, op, "query").found
    THEN Raised("AttributeError")
    ELSE Getitem(built, op, SourceQuery(x))

ShiftDone(op, a, b, key, name, out, before) ==
  [op |-> op, a |-> a, b |-> b, key |-> key, name |-> name, out |-> out, before |-> before]

ShiftIdle ==
  /\ eBuilt = <<>>
  /\ eWritten = <<>>
  /\ eLast = ShiftDone("none", NoOperand, NoOperand, 0, "", Value(0), 0)

ShiftInit == ShiftIdle

ShiftFrame == UNCHANGED <<pipeVars, cacheVars, queryVars, weakVars, metaVars, lockVars, ctxVars, mapVars, reduceVars, bindVars, synthVars, instVars, identVars, subVars, multiVars, ctupVars, resVars>>

Sources(built) == {op \in Operands(built) : op.cat = "source"}
Transforms(built) == {op \in Operands(built) : op.cat = "transform"}
BuiltSources(built) == {op \in Sources(built) : op.ix > 0}
BuiltTransforms(built) == {op \in Transforms(built) : op.ix > 0}

\* a >> b is evaluated and gives a composed class
RshiftDefine(a, b) ==
  /\ Len(eBuilt) < MaxBuilt
  /\ Rshift(a, b).ok
  /\ eBuilt' = Append(eBuilt, Rshift(a, b).cls)
  /\ eWritten' = Append(eWritten, <<a, b>>)
  /\ eLast' = ShiftDone("rshift", a, b, 0, "", Value(0), Len(eBuilt))
  /\ ShiftFrame

\* a >> b is evaluated and raises TypeError
RshiftTypeError(a, b) ==
  /\ ~Rshift(a, b).ok
  /\ UNCHANGED <<eBuilt, eWritten>>
  /\ eLast' = ShiftDone("rshift", a, b, 0, "", Raised("TypeError"), Len(eBuilt))
  /\ ShiftFrame

\* cache(ds, cache), query(ds), reduce(ds, transform)
WrapDefine(kind, ds, transform) ==
  /\ Len(eBuilt) < MaxBuilt
  /\ eBuilt' = Append(eBuilt, Composed(kind, ds, transform))
  /\ eWritten' = Append(eWritten, <<ds, transform>>)
  /\ eLast' = ShiftDone("wrap", ds, transform, 0, kind, Value(0), Len(eBuilt))
  /\ ShiftFrame

\* Composed()(inp) for a composed transform
CallComposed(op, inp) ==
  /\ eLast' = ShiftDone("call", op, NoOperand, inp, "", Value(Call(eBuilt, op, inp)), Len(eBuilt))
  /\ UNCHANGED <<eBuilt, eWritten>>
  /\ ShiftFrame

\* Composed()[key] for a composed data source
GetitemComposed(op, key) ==
  /\ eLast' = ShiftDone("get", op, NoOperand, key, "", Getitem(eBuilt, op, key), Len(eBuilt))
  /\ UNCHANGED <<eBuilt, eWritten>>
  /\ ShiftFrame

\* getattr(Composed(), name) for a composed data source
GetattrComposed(op, name) ==
  /\ eLast' = ShiftDone("getattr", op, Getattr(eBuilt, op, name).at, 0, name,
                        IF Getattr(eBuilt, op, name).found THEN Value(0) ELSE Raised("AttributeError"),
                        Len(eBuilt))
  /\ UNCHANGED <<eBuilt, eWritten>>
  /\ ShiftFrame

\* ds = Composed(); ds[ds.query(x)]
QueryComposed(op, x) ==
  /\ eLast' = ShiftDone("query_get", op, NoOperand, x, "query", QueryThenGetitem(eBuilt, op, x), Len(eBuilt))
  /\ UNCHANGED <<eBuilt, eWritten>>
  /\ ShiftFrame

ShiftNext ==
  \/ \E a, b \in Operands(eBuilt) : RshiftDefine(a, b)
  \/ \E a, b \in Operands(eBuilt) : RshiftTypeError(a, b)
  \/ \E kind \in {"cached", "query"}, ds \in Sources(eBuilt) : WrapDefine(kind, ds, NoOperand)
  \/ \E ds \in Sources(eBuilt), t \in Transforms(eBuilt) : WrapDefine("reduce", ds, t)
  \/ \E op \in BuiltTransforms(eBuilt), inp \in Vals : CallComposed(op, inp)
  \/ \E op \in BuiltSources(eBuilt), key \in Vals : GetitemComposed(op, key)
  \/ \E op \in BuiltSources(eBuilt), name \in AttrNames : GetattrComposed(op, name)
  \/ \E op \in BuiltSources(eBuilt), x \in Vals : QueryComposed(op, x)

\* ------------------------------------- class synthesis (_InstantiateClassMixin)

\* The names init arguments can have.
ParamNames == {"p", "q"}

\* An attrs field made for an init argument: whether the argument is
\* declared, and its default (None: attrs.NOTHING, the argument is required).
Field(decl, def) == [decl |-> decl, def |-> def]
NoField == Field(FALSE, None)
NoFields == [n \in ParamNames |-> NoField]

\* Keyword arguments: name -> optional value (None: not given).
NoArgs == [n \in ParamNames |-> None]
ArgSets == {kw \in [ParamNames -> Optional(Dom)] : kw["q"] # Some(1)}

\* A constituent given to _concretize: a class with its __init__ signature,
\* a partial of a class with its keywords, or an instance.
Leaf(form, sig, bound) == [kind |-> "leaf", form |-> form, sig |-> sig, bound |-> bound]

\* A class made by _concretize, with its two constituents in the order of
\* the objects dict.
Concretized(first, second) == [kind |-> "comp", first |-> first, second |-> second]

Signatures ==
  {[p |-> fp, q |-> fq] :
     fp \in {NoField, Field(TRUE, None), Field(TRUE, Some(0)), Field(TRUE, Some(1))},
     fq \in {NoField, Field(TRUE, None)}}

\* The constituents the program composes: classes, partials that bind p,
\* and an instance.
Leaves ==
  {Leaf("class", sig, NoArgs) : sig \in Signatures}
    \cup {Leaf("partial", sig, [p |-> Some(1), q |-> None]) : sig \in {s \in Signatures : s["p"].decl}}
    \cup {Leaf("instance", NoFields, NoArgs)}

\* A mutant of UpdateFields: the first constituent's field is kept.
UpdateFieldsFirstWins(fields, new) ==
  [n \in ParamNames |-> IF fields[n].decl THEN fields[n] ELSE new[n]]

\* _concretize: properties.update(fields), one constituent after another
UpdateFields(fields, new) ==
  [n \in ParamNames |-> IF new[n].decl THEN new[n] ELSE fields[n]]

\* _extract_fields: the init arguments of a class (for a composed class
\* the fields _concretize gave it), those of a partial's class without its
\* keywords, nothing for an instance.
RECURSIVE ExtractFields(_)
ExtractFields(obj) ==
  IF obj.kind = "comp"
    THEN UpdateFields(ExtractFields(obj.first), ExtractFields(obj.second))
  ELSE IF obj.form = "class"
    THEN obj.sig
  ELSE IF obj.form = "partial"
    THEN [n \in ParamNames |-> IF obj.bound[n] # None THEN NoField ELSE obj.sig[n]]
  ELSE NoFields

\* _check_fields_compatibility, as a predicate: whether it raises TypeError.
\* Its body is empty.
CheckFieldsCompatibilityRaises(fields1, fields2) == FALSE

\* _{name}_kwargs: list(fields.keys())
KwargNames(fields) == {n \in ParamNames : fields[n].decl}

\* The generated keyword-only __init__ of a class with these fields:
\* TypeError for an argument it does not have and for a missing argument
\* without default; otherwise the attribute values.
AttrsInit(fields, kwargs) ==
  [ok |-> \A n \in ParamNames :
            /\ kwargs[n] # None => fields[n].decl
            /\ (fields[n].decl /\ fields[n].def = None) => kwargs[n] # None,
   values |-> [n \in ParamNames |->
                 IF ~fields[n].decl THEN None
                 ELSE IF kwargs[n] # None THEN kwargs[n]
                 ELSE fields[n].def]]

\* _maybe_instantiate's kwargs = {name: getattr(self, name) for name in kwarg_names}
SelectKwargs(values, kwarg_names) ==
  [n \in ParamNames |-> IF n \in kwarg_names THEN values[n] ELSE None]

\* Constructing obj(**kwargs): whether it succeeds, and for each class,
\* partial or instance underneath, from left to right, the arguments its
\* constructor ran with (nothing for an instance, which is used as it is).
RECURSIVE Instantiate(_, _)
Instantiate(obj, kwargs) ==
  IF obj.kind = "leaf" THEN
    IF obj.form = "instance" THEN [ok |-> TRUE, got |-> <<NoArgs>>]
    ELSE
      LET all == [n \in ParamNames |-> IF kwargs[n] # None THEN kwargs[n] ELSE obj.bound[n]]
          init == AttrsInit(obj.sig, all)
      IN  [ok |-> init.ok, got |-> <<init.values>>]
  ELSE
    LET init == AttrsInit(ExtractFields(obj), kwargs) IN
    IF ~init.ok THEN [ok |-> FALSE, got |-> <<>>]
    ELSE
      LET a == Instantiate(obj.first, SelectKwargs(init.values, KwargNames(ExtractFields(obj.first))))
          b == Instantiate(obj.second, SelectKwargs(init.values, KwargNames(ExtractFields(obj.second))))
      IN  [ok |-> a.ok /\ b.ok, got |-> a.got \o b.got]

SynthDone(op, kwargs, raised, got) ==
  [op |-> op, kwargs |-> kwargs, raised |-> raised, got |-> got]

SynthIdle ==
  /\ zClass = <<>>
  /\ zLast = SynthDone("none", NoArgs, "", <<>>)

SynthInit == SynthIdle

SynthFrame == UNCHANGED <<pipeVars, cacheVars, queryVars, weakVars, metaVars, lockVars, ctxVars, mapVars, reduceVars, bindVars, shiftVars, instVars, identVars, subVars, multiVars, ctupVars, resVars>>

\* _concretize({name1: first, name2: second}): the class is returned unless
\* the compatibility check raises.
Concretize(first, second) ==
  /\ zClass' = IF CheckFieldsCompatibilityRaises(ExtractFields(first), ExtractFields(second))
                 THEN zClass
                 ELSE <<Concretized(first, second)>>
  /\ zLast' = SynthDone("concretize", NoArgs,
                        IF CheckFieldsCompatibilityRaises(ExtractFields(first), ExtractFields(second))
                          THEN "TypeError" ELSE "",
                        <<>>)
  /\ SynthFrame

\* Two classes, partials or instances are composed.
ConcretizeLeaves(first, second) ==
  /\ zClass = <<>>
  /\ Concretize(first, second)

\* The composed class is composed again, on either side.
ConcretizeNested(leaf, left) ==
  /\ zClass # <<>>
  /\ zClass[1].first.kind = "leaf" /\ zClass[1].second.kind = "leaf"
  /\ IF left THEN Concretize(leaf, zClass[1]) ELSE Concretize(zClass[1], leaf)

\* Composed(**kwargs): __init__ and __attrs_post_init__
InstantiateComposed(kwargs) ==
  /\ zClass # <<>>
  /\ zLast' = SynthDone("init", kwargs,
                        IF Instantiate(zClass[1], kwargs).ok THEN "" ELSE "TypeError",
                        Instantiate(zClass[1], kwargs).got)
  /\ UNCHANGED zClass
  /\ SynthFrame

SynthNext ==
  \/ \E first, second \in Leaves : ConcretizeLeaves(first, second)
  \/ \E leaf \in Leaves, left \in BOOLEAN : ConcretizeNested(leaf, left)
  \/ \E kwargs \in ArgSets : InstantiateComposed(kwargs)

\* --------------------------- instances of one composed class (_maybe_instantiate)

\* The pipeline instances made from the one class cache(ds, cache).
Pipelines == 1..NPipes

\* The constituents of a _CachedDataSource.
Roles == {"datasource", "cache"}
Forms == {"class", "partial", "instance"}

\* Object 0 of a role is the instance that was given to cache(), if one
\* was; object p is the one constructed for pipeline instance p.
ObjIds == 0..NPipes

\* A mutant of MaybeInstantiate: one object serves every pipeline instance.
MaybeInstantiateOnce(form, p) == 0

\* _maybe_instantiate: a class or partial is called and gives a new object,
\* anything else is returned as it is.
MaybeInstantiate(form, p) == IF form \in {"class", "partial"} THEN p ELSE 0

\* __attrs_post_init__: the objects set as self._datasource and self._cache
PostInit(forms, p) == [r \in Roles |-> MaybeInstantiate(forms[r], p)]

InstDone(op, p, key, val) == [op |-> op, p |-> p, key |-> key, val |-> val]

InstIdle ==
  /\ iForm = [r \in Roles |-> "class"]
  /\ iRef = [p \in Pipelines |-> None]
  /\ iData = [o \in ObjIds |-> [k \in Dom |-> 0]]
  /\ iSink = [o \in ObjIds |-> [k \in Dom |-> None]]
  /\ iGets = [o \in ObjIds |-> 0]
  /\ iLast = InstDone("none", 0, 0, 0)

InstInit ==
  /\ iForm \in [Roles -> Forms]
  /\ iRef = [p \in Pipelines |-> None]
  /\ iData = [o \in ObjIds |-> [k \in Dom |-> 0]]
  /\ iSink = [o \in ObjIds |-> [k \in Dom |-> None]]
  /\ iGets = [o \in ObjIds |-> 0]
  /\ iLast = InstDone("none", 0, 0, 0)

InstFrame == UNCHANGED <<pipeVars, cacheVars, queryVars, weakVars, metaVars, lockVars, ctxVars, mapVars, reduceVars, bindVars, shiftVars, synthVars, identVars, subVars, multiVars, ctupVars, resVars>>

SourceOf(p) == iRef[p][1]["datasource"]
SinkOf(p) == iRef[p][1]["cache"]

\* Composed(**kwargs) makes pipeline instance p
InstantiatePipeline(p) ==
  /\ iRef[p] = None
  /\ iRef' = [iRef EXCEPT ![p] = Some(PostInit(iForm, p))]
  /\ iLast' = InstDone("init", p, 0, 0)
  /\ UNCHANGED <<iForm, iData, iSink, iGets>>
  /\ InstFrame

\* p._datasource[key] = value, as the tests do on the source of a pipeline
SourceSetitem(p, key, value) ==
  /\ iRef[p] # None
  /\ iData' = [iData EXCEPT ![SourceOf(p)][key] = value]
  /\ iLast' = InstDone("set", p, key, value)
  /\ UNCHANGED <<iForm, iRef, iSink, iGets>>
  /\ InstFrame

\* p[key], found in p's sink
CachedGetitemHit(p, key) ==
  /\ iRef[p] # None
  /\ iSink[SinkOf(p)][key] # None
  /\ iLast' = InstDone("get", p, key, iSink[SinkOf(p)][key][1])
  /\ UNCHANGED <<iForm, iRef, iData, iSink, iGets>>
  /\ InstFrame

\* p[key], not in p's sink: loaded from p's source and stored
CachedGetitemMiss(p, key) ==
  /\ iRef[p] # None
  /\ iSink[SinkOf(p)][key] = None
  /\ iGets[SourceOf(p)] < MaxCalls
  /\ iGets' = [iGets EXCEPT ![SourceOf(p)] = @ + 1]
  /\ iSink' = [iSink EXCEPT ![SinkOf(p)][key] = Some(iData[SourceOf(p)][key])]
  /\ iLast' = InstDone("get", p, key, iData[SourceOf(p)][key])
  /\ UNCHANGED <<iForm, iRef, iData>>
  /\ InstFrame

InstNext ==
  \/ \E p \in Pipelines : InstantiatePipeline(p)
  \/ \E p \in Pipelines, key \in Dom, value \in Dom : SourceSetitem(p, key, value)
  \/ \E p \in Pipelines, key \in Dom : CachedGetitemHit(p, key)
  \/ \E p \in Pipelines, key \in Dom : CachedGetitemMiss(p, key)

\* --------------------------------------- identity keys of the side-table

\* The live key objects; object o is at address o, and two of them may
\* compare equal.
IdentObjs == 1..NIdent

\* The keys self.data can have: addresses, and (for a table keyed by the
\* objects themselves) the values the objects compare by.
IdentKeys == 0..(NIdent + MaxKey)

\* A mutant of KeyId: the table is keyed by the object, that is by what it
\* hashes and compares by.
KeyIdByEquality(o, eq) == eq[o]

\* obj_id = id(key)
KeyId(o, eq) == o

IdentDone(op, obj, val, raised) == [op |-> op, obj |-> obj, val |-> val, raised |-> raised]

IdentIdle ==
  /\ kEq = [o \in IdentObjs |-> 0]
  /\ kData = [a \in IdentKeys |-> None]
  /\ kOwn = [o \in IdentObjs |-> None]
  /\ kLast = IdentDone("none", 0, None, FALSE)

\* An empty table and live objects of any values, equal or not.
IdentInit ==
  /\ kEq \in [IdentObjs -> Dom]
  /\ kData = [a \in IdentKeys |-> None]
  /\ kOwn = [o \in IdentObjs |-> None]
  /\ kLast = IdentDone("none", 0, None, FALSE)

IdentFrame == UNCHANGED <<pipeVars, cacheVars, queryVars, weakVars, metaVars, lockVars, ctxVars, mapVars, reduceVars, bindVars, shiftVars, synthVars, instVars, subVars, multiVars, ctupVars, resVars>>

\* self[o] = value: sets or replaces the entry
IdentSetitem(o, value) ==
  /\ kData' = [kData EXCEPT ![KeyId(o, kEq)] = Some(value)]
  /\ kOwn' = [kOwn EXCEPT ![o] = Some(value)]
  /\ kLast' = IdentDone("set", o, None, FALSE)
  /\ UNCHANGED kEq
  /\ IdentFrame

\* self[o]: KeyError if the id is not in self.data
IdentGetitem(o) ==
  /\ kLast' = IdentDone("getitem", o, kData[KeyId(o, kEq)], kData[KeyId(o, kEq)] = None)
  /\ UNCHANGED <<kEq, kData, kOwn>>
  /\ IdentFrame

\* del self[o]: KeyError if the id is not in self.data
IdentDelitem(o) ==
  /\ kData' = [kData EXCEPT ![KeyId(o, kEq)] = None]
  /\ kOwn' = [kOwn EXCEPT ![o] = None]
  /\ kLast' = IdentDone("del", o, None, kData[KeyId(o, kEq)] = None)
  /\ UNCHANGED kEq
  /\ IdentFrame

\* o in self
IdentContains(o) ==
  /\ kLast' = IdentDone("contains", o, kData[KeyId(o, kEq)], FALSE)
  /\ UNCHANGED <<kEq, kData, kOwn>>
  /\ IdentFrame

\* self.setdefault(o, default): the stored value if the id is in
\* self.data, else default is stored and returned
IdentSetdefault(o, default) ==
  /\ kData' = IF kData[KeyId(o, kEq)] # None THEN kData
              ELSE [kData EXCEPT ![KeyId(o, kEq)] = Some(default)]
  /\ kOwn' = IF kOwn[o] # None THEN kOwn ELSE [kOwn EXCEPT ![o] = Some(default)]
  /\ kLast' = IdentDone("setdefault", o,
                        IF kData[KeyId(o, kEq)] # None THEN kData[KeyId(o, kEq)] ELSE Some(default),
                        FALSE)
  /\ UNCHANGED kEq
  /\ IdentFrame

\* self.get(o): the stored value, or the default None
IdentGet(o) ==
  /\ kLast' = IdentDone("get", o, kData[KeyId(o, kEq)], FALSE)
  /\ UNCHANGED <<kEq, kData, kOwn>>
  /\ IdentFrame

IdentNext ==
  \/ \E o \in IdentObjs, value \in Dom : IdentSetitem(o, value)
  \/ \E o \in IdentObjs : IdentGetitem(o)
  \/ \E o \in IdentObjs : IdentDelitem(o)
  \/ \E o \in IdentObjs : IdentContains(o)
  \/ \E o \in IdentObjs, default \in Dom : IdentSetdefault(o, default)
  \/ \E o \in IdentObjs : IdentGet(o)

\* --------------------------------------------------- locks with sub-keys

\* Two lock paths; the default lock key and one sub-key.
LockPaths == {"p", "q"}
LockKeys == {"__default_lock__", "k"}

\* A lock instance: lock_path, lock_key and its library lock object (for a
\* FileLock the thread that created it, 0 before it is set or for an RLock).
LockInst(path, key, obj) == [path |-> path, key |-> key, obj |-> obj]
NoInst == LockInst("", "", 0)

\* The lock made by the constructor: LockBase(lock_path).
BaseLock(path) == LockInst(path, "__default_lock__", 0)

\* __call__: evolve(self, lock_key=lock_key)
Evolve(inst, lock_key) == LockInst(inst.path, lock_key, 0)

\* A mutant of LockFile: the lock key is not part of what is locked.
LockFileOfPath(inst) == <<inst.path, "__default_lock__">>

\* What an instance locks: the file lock_path / f"{lock_key}.lock", or the
\* key lock_key of the cache at lock_path.
LockFile(inst) == <<inst.path, inst.key>>

LockFiles == LockPaths \X LockKeys

\* with-blocks on the library lock object of inst that the thread is inside
SubDepth(stack, inst) ==
  Cardinality({i \in 1..Len(stack) : LockFile(stack[i]) = LockFile(inst) /\ stack[i].obj = inst.obj})

\* acquire succeeds: RLock: the entry is free or owned by this thread;
\* FileLock: this thread holds the object already, or the OS lock is free.
SubCanAcquire(t) ==
  IF sKind = "diskcache"
    THEN sEntry[LockFile(sInst[t])].count = 0 \/ sEntry[LockFile(sInst[t])].owner = t
    ELSE SubDepth(sStack[t], sInst[t]) > 0 \/ sFlock[LockFile(sInst[t])] = None

SubDone(base, key, made) == [base |-> base, key |-> key, made |-> made]

SubIdle ==
  /\ sKind = "file"
  /\ sRegistry = [f \in LockFiles |-> 0]
  /\ sEntry = [f \in LockFiles |-> NoEntry]
  /\ sFlock = [f \in LockFiles |-> None]
  /\ sPc = [t \in Threads |-> "idle"]
  /\ sInst = [t \in Threads |-> NoInst]
  /\ sStack = [t \in Threads |-> <<>>]
  /\ sLast = SubDone(NoInst, "", NoInst)

SubInit ==
  /\ sKind \in {"diskcache", "file"}
  /\ sRegistry = [f \in LockFiles |-> 0]
  /\ sEntry = [f \in LockFiles |-> NoEntry]
  /\ sFlock = [f \in LockFiles |-> None]
  /\ sPc = [t \in Threads |-> "idle"]
  /\ sInst = [t \in Threads |-> NoInst]
  /\ sStack = [t \in Threads |-> <<>>]
  /\ sLast = SubDone(NoInst, "", NoInst)

SubFrame == UNCHANGED <<pipeVars, cacheVars, queryVars, weakVars, metaVars, lockVars, ctxVars, mapVars, reduceVars, bindVars, shiftVars, synthVars, instVars, identVars, multiVars, ctupVars, resVars>>

\* A thread nests at most two with-blocks here.
SubMayCall(t) == sPc[t] = "idle" /\ Len(sStack[t]) < 2

\* DiskCacheRLock(path)(key): evolve, then _create_lock: a new RLock
SubCallDiskCache(t, path, key) ==
  /\ SubMayCall(t) /\ sKind = "diskcache"
  /\ sInst' = [sInst EXCEPT ![t] = Evolve(BaseLock(path), key)]
  /\ sPc' = [sPc EXCEPT ![t] = "ready"]
  /\ sLast' = SubDone(BaseLock(path), key, Evolve(BaseLock(path), key))
  /\ UNCHANGED <<sKind, sRegistry, sEntry, sFlock, sStack>>
  /\ SubFrame

\* FileRLock(path)(key): evolve, then _create_lock finds the file's object
SubCallFileHit(t, path, key) ==
  /\ SubMayCall(t) /\ sKind = "file"
  /\ sRegistry[LockFile(Evolve(BaseLock(path), key))] # 0
  /\ sInst' = [sInst EXCEPT ![t] =
                 [Evolve(BaseLock(path), key) EXCEPT !.obj = sRegistry[LockFile(Evolve(BaseLock(path), key))]]]
  /\ sPc' = [sPc EXCEPT ![t] = "ready"]
  /\ sLast' = SubDone(BaseLock(path), key, Evolve(BaseLock(path), key))
  /\ UNCHANGED <<sKind, sRegistry, sEntry, sFlock, sStack>>
  /\ SubFrame

\* FileRLock(path)(key): evolve, then _create_lock: KeyError, mkdir
SubCallFileMiss(t, path, key) ==
  /\ SubMayCall(t) /\ sKind = "file"
  /\ sRegistry[LockFile(Evolve(BaseLock(path), key))] = 0
  /\ sInst' = [sInst EXCEPT ![t] = Evolve(BaseLock(path), key)]
  /\ sPc' = [sPc EXCEPT ![t] = "creating"]
  /\ sLast' = SubDone(BaseLock(path), key, Evolve(BaseLock(path), key))
  /\ UNCHANGED <<sKind, sRegistry, sEntry, sFlock, sStack>>
  /\ SubFrame

\* _create_lock: lock = FileLock(lock_path); _file_rlocks[lock_path] = lock
SubFileInsert(t) ==
  /\ sPc[t] = "creating"
  /\ sRegistry' = [sRegistry EXCEPT ![LockFile(sInst[t])] = t]
  /\ sInst' = [sInst EXCEPT ![t].obj = t]
  /\ sPc' = [sPc EXCEPT ![t] = "ready"]
  /\ UNCHANGED <<sKind, sEntry, sFlock, sStack, sLast>>
  /\ SubFrame

\* __enter__: the library lock is acquired and the block is entered
SubEnter(t) ==
  /\ sPc[t] \in {"ready", "waiting"}
  /\ SubCanAcquire(t)
  /\ sStack' = [sStack EXCEPT ![t] = Append(@, sInst[t])]
  /\ sEntry' = IF sKind = "diskcache"
                 THEN [sEntry EXCEPT ![LockFile(sInst[t])] = [owner |-> t, count |-> @.count + 1]]
                 ELSE sEntry
  /\ sFlock' = IF sKind = "file" /\ SubDepth(sStack[t], sInst[t]) = 0
                 THEN [sFlock EXCEPT ![LockFile(sInst[t])] = Some([obj |-> sInst[t].obj, thread |-> t])]
                 ELSE sFlock
  /\ sPc' = [sPc EXCEPT ![t] = "idle"]
  /\ sInst' = [sInst EXCEPT ![t] = NoInst]
  /\ UNCHANGED <<sKind, sRegistry, sLast>>
  /\ SubFrame

\* __enter__: the lock is held elsewhere; acquire() polls
SubWait(t) ==
  /\ sPc[t] = "ready"
  /\ ~SubCanAcquire(t)
  /\ sPc' = [sPc EXCEPT ![t] = "waiting"]
  /\ UNCHANGED <<sKind, sRegistry, sEntry, sFlock, sInst, sStack, sLast>>
  /\ SubFrame

\* FileLock.acquire raises Timeout; the block is not entered
SubTimeout(t) ==
  /\ sPc[t] = "waiting" /\ sKind = "file"
  /\ ~SubCanAcquire(t)
  /\ sPc' = [sPc EXCEPT ![t] = "idle"]
  /\ sInst' = [sInst EXCEPT ![t] = NoInst]
  /\ UNCHANGED <<sKind, sRegistry, sEntry, sFlock, sStack, sLast>>
  /\ SubFrame

\* __exit__: the library lock is released; the innermost block is left
SubExit(t) ==
  /\ sPc[t] = "idle" /\ Len(sStack[t]) > 0
  /\ sStack' = [sStack EXCEPT ![t] = SubSeq(@, 1, Len(@) - 1)]
  /\ sEntry' = IF sKind = "diskcache"
                 THEN [sEntry EXCEPT ![LockFile(sStack[t][Len(sStack[t])])] =
                         [owner |-> @.owner, count |-> @.count - 1]]
                 ELSE sEntry
  /\ sFlock' = IF sKind = "file" /\ SubDepth(sStack[t], sStack[t][Len(sStack[t])]) = 1
                 THEN [sFlock EXCEPT ![LockFile(sStack[t][Len(sStack[t])])] = None]
                 ELSE sFlock
  /\ UNCHANGED <<sKind, sRegistry, sPc, sInst, sLast>>
  /\ SubFrame

SubNext ==
  \/ \E t \in Threads, path \in LockPaths, key \in LockKeys : SubCallDiskCache(t, path, key)
  \/ \E t \in Threads, path \in LockPaths, key \in LockKeys : SubCallFileHit(t, path, key)
  \/ \E t \in Threads, path \in LockPaths, key \in LockKeys : SubCallFileMiss(t, path, key)
  \/ \E t \in Threads : SubFileInsert(t)
  \/ \E t \in Threads : SubEnter(t)
  \/ \E t \in Threads : SubWait(t)
  \/ \E t \in Threads : SubTimeout(t)
  \/ \E t \in Threads : SubExit(t)

\* ----------------------------------- data source of several sub-datasources

\* The sub-datasources that exist; a MultiDataSource lists up to MaxSubs
\* of them, possibly one of them twice.
SubSources == {"dataset1", "dataset2"}
SubLists == UNION {[1..n -> SubSources] : n \in 1..MaxSubs}

\* What a sub-datasource returns for the key: one item, or a tuple of items.
Item(v) == [form |-> "item", items |-> <<v>>]
Tuple(s) == [form |-> "tuple", items |-> s]
SubValues == {Item(v) : v \in Dom} \cup {Tuple(s) : s \in TuplesUpTo(Dom, MaxLen)}

KeySearchStrategy == {"all", "first"}

\* A mutant of SearchSubs: the strategy is not looked at, every
\* sub-datasource is searched.
SearchAllSubs(datasources, data, strategy, i, values) ==
  [values |-> [j \in 1..Len(datasources) |-> data[datasources[j]]], consulted |-> Len(datasources)]

\* for datasource in self.datasources: values.append(datasource[key]),
\* a KeyError is passed over; with strategy first the loop ends at the
\* first value. Gives what each sub-datasource gave (None: not asked or
\* KeyError) and how many were asked.
RECURSIVE SearchSubs(_, _, _, _, _)
SearchSubs(datasources, data, strategy, i, values) ==
  IF i > Len(datasources) THEN [values |-> values, consulted |-> Len(datasources)]
  ELSE IF data[datasources[i]] # None /\ strategy = "first"
    THEN [values |-> [values EXCEPT ![i] = data[datasources[i]]], consulted |-> i]
    ELSE SearchSubs(datasources, data, strategy, i + 1, [values EXCEPT ![i] = data[datasources[i]]])

\* flatten(tuple(values), depth=1): a tuple among the values is replaced
\* by its items, any other value is kept.
RECURSIVE Flatten(_)
Flatten(values) ==
  IF values = <<>> THEN <<>>
  ELSE (IF values[1] = None THEN <<>> ELSE values[1][1].items) \o Flatten(Tail(values))

\* The tuples tuple(set(items)) can be: each element once, in any order.
TuplesOfSet(items) ==
  {s \in TuplesUpTo(Dom, MaxKey + 1) :
     /\ {s[i] : i \in 1..Len(s)} = {items[i] : i \in 1..Len(items)}
     /\ \A i \in 1..Len(s), j \in 1..Len(s) : s[i] = s[j] => i = j}

\* What the last get did: the sub-datasources and strategy of the
\* MultiDataSource, whether KeyError was raised, the tuple returned and how
\* many sub-datasources were asked.
MultiDone(datasources, strategy, raised, out, consulted) ==
  [datasources |-> datasources, strategy |-> strategy, raised |-> raised, out |-> out, consulted |-> consulted]

MultiIdle ==
  /\ uData = [d \in SubSources |-> None]
  /\ uLast = MultiDone(<<>>, "all", FALSE, <<>>, 0)

\* New sub-datasources: none holds the key.
MultiInit ==
  /\ uData = [d \in SubSources |-> None]
  /\ uLast = MultiDone(<<>>, "all", FALSE, <<>>, 0)

MultiFrame == UNCHANGED <<pipeVars, cacheVars, queryVars, weakVars, metaVars, lockVars, ctxVars, mapVars, reduceVars, bindVars, shiftVars, synthVars, instVars, identVars, subVars, ctupVars, resVars>>

\* dataset[key] = value on a sub-datasource
SubSetitem(d, value) ==
  /\ uData' = [uData EXCEPT ![d] = Some(value)]
  /\ uLast' = MultiDone(<<>>, "all", FALSE, <<>>, 0)
  /\ MultiFrame

\* MultiDataSource(datasources, search_strategy)[key]: no value, KeyError
MultiGetitemKeyError(datasources, strategy) ==
  /\ \A j \in 1..Len(datasources) :
       SearchSubs(datasources, uData, strategy, 1, [k \in 1..Len(datasources) |-> None]).values[j] = None
  /\ uLast' = MultiDone(datasources, strategy, TRUE, <<>>,
                        SearchSubs(datasources, uData, strategy, 1, [j \in 1..Len(datasources) |-> None]).consulted)
  /\ UNCHANGED uData
  /\ MultiFrame

\* MultiDataSource(datasources, search_strategy)[key]: the values found,
\* flattened, as tuple(set(...))
MultiGetitem(datasources, strategy, out) ==
  /\ \E j \in 1..Len(datasources) :
       SearchSubs(datasources, uData, strategy, 1, [k \in 1..Len(datasources) |-> None]).values[j] # None
  /\ out \in TuplesOfSet(Flatten(SearchSubs(datasources, uData, strategy, 1, [j \in 1..Len(datasources) |-> None]).values))
  /\ uLast' = MultiDone(datasources, strategy, FALSE, out,
                        SearchSubs(datasources, uData, strategy, 1, [j \in 1..Len(datasources) |-> None]).consulted)
  /\ UNCHANGED uData
  /\ MultiFrame

MultiNext ==
  \/ \E d \in SubSources, value \in SubValues : SubSetitem(d, value)
  \/ \E datasources \in SubLists, strategy \in KeySearchStrategy : MultiGetitemKeyError(datasources, strategy)
  \/ \E datasources \in SubLists, strategy \in KeySearchStrategy, out \in TuplesUpTo(Dom, MaxKey + 1) :
       MultiGetitem(datasources, strategy, out)

\* ------------------- cached data source, single-key and multi-key gets

\* The outcome of one single-key __getitem__: whether it raised KeyError,
\* the result, the sink afterwards, whether the source and the skip
\* predicate were called.
Fetched(raised, result, sink, src, skip) ==
  [raised |-> raised, result |-> result, sink |-> sink, src |-> src, skip |-> skip]

\* A mutant of CachedDataSourceGetitem: a key the source lacks is
\* remembered in the sink (as the value 0).
CachedDataSourceGetitemStoresFailure(sink, source, skip, key) ==
  IF sink[key] # None THEN Fetched(FALSE, sink[key][1], sink, FALSE, FALSE)
  ELSE IF source[key] = None THEN Fetched(TRUE, 0, [sink EXCEPT ![key] = Some(0)], TRUE, FALSE)
  ELSE IF ShouldStore(skip, key, source[key][1])
    THEN Fetched(FALSE, source[key][1], [sink EXCEPT ![key] = source[key]], TRUE, skip # "none")
    ELSE Fetched(FALSE, source[key][1], sink, TRUE, TRUE)

\* A mutant of CachedDataSourceGetitem: the skip predicate is asked before
\* the sink is read, and a key it holds for goes to the source.
CachedDataSourceGetitemSkipFirst(sink, source, skip, key) ==
  IF sink[key] # None /\ (skip = "none" \/ ~SkipIf(skip, key, sink[key][1]))
    THEN Fetched(FALSE, sink[key][1], sink, FALSE, skip # "none")
  ELSE IF source[key] = None THEN Fetched(TRUE, 0, sink, TRUE, FALSE)
  ELSE IF ShouldStore(skip, key, source[key][1])
    THEN Fetched(FALSE, source[key][1], [sink EXCEPT ![key] = source[key]], TRUE, skip # "none")
    ELSE Fetched(FALSE, source[key][1], sink, TRUE, TRUE)

\* _CachedDataSource.__getitem__, single key:
\*   try: result = self._cache[key]
\*   except KeyError: data = self._datasource[key]   (its KeyError goes up)
\*     if self._skip_if is None or not self._skip_if(key, data):
\*       self._cache[key] = data; result = self._cache[key]
\*     else: result = data
CachedDataSourceGetitem(sink, source, skip, key) ==
  IF sink[key] # None THEN Fetched(FALSE, sink[key][1], sink, FALSE, FALSE)
  ELSE IF source[key] = None THEN Fetched(TRUE, 0, sink, TRUE, FALSE)
  ELSE IF ShouldStore(skip, key, source[key][1])
    THEN Fetched(FALSE, source[key][1], [sink EXCEPT ![key] = source[key]], TRUE, skip # "none")
    ELSE Fetched(FALSE, source[key][1], sink, TRUE, TRUE)

\* The get that ended: its key argument (a tuple, or one key), whether it
\* raised KeyError and at which position, what it returned, the sink
\* before it, and whether its last fetch called the source and the skip
\* predicate.
CtupDone(tuple, arg, raised, pos, out, before, src, skip) ==
  [tuple |-> tuple, arg |-> arg, raised |-> raised, pos |-> pos, out |-> out,
   before |-> before, src |-> src, skip |-> skip]

NoSink == [k \in Dom |-> None]
NoCount == [k \in Dom |-> 0]

CtupIdle ==
  /\ gSource = NoSink
  /\ gSkip = "none"
  /\ gSink = NoSink
  /\ gArg = <<>>
  /\ gPos = 0
  /\ gPartial = <<>>
  /\ gBefore = NoSink
  /\ gSrcGets = NoCount
  /\ gSkipCalls = NoCount
  /\ gLast = CtupDone(FALSE, <<>>, FALSE, 0, <<>>, NoSink, FALSE, FALSE)

\* A source, a skip predicate, and a sink that is new or was filled before
\* (a sink on disk outlives the process; a sink instance may be handed in).
CtupInit ==
  /\ gSource \in [Dom -> Optional(Dom)]
  /\ gSkip \in {"none", "key", "value"}
  /\ gSink \in [Dom -> Optional(Dom)]
  /\ gArg = <<>>
  /\ gPos = 0
  /\ gPartial = <<>>
  /\ gBefore = NoSink
  /\ gSrcGets = NoCount
  /\ gSkipCalls = NoCount
  /\ gLast = CtupDone(FALSE, <<>>, FALSE, 0, <<>>, NoSink, FALSE, FALSE)

CtupFrame == UNCHANGED <<pipeVars, cacheVars, queryVars, weakVars, metaVars, lockVars, ctxVars, mapVars, reduceVars, bindVars, shiftVars, synthVars, instVars, identVars, subVars, multiVars, resVars>>

CtupConfig == <<gSource, gSkip>>

\* The counters after a fetch of key.
Counted(count, key, called) == IF called THEN [count EXCEPT ![key] = @ + 1] ELSE count

\* A fetch of key may run: the source is called at most MaxCalls times.
MayFetch(key) == gPos = 0 /\ gSrcGets[key] < MaxCalls

\* cached[key], one key
CtupGetSingle(key) ==
  /\ MayFetch(key)
  /\ gSink' = CachedDataSourceGetitem(gSink, gSource, gSkip, key).sink
  /\ gSrcGets' = Counted(gSrcGets, key, CachedDataSourceGetitem(gSink, gSource, gSkip, key).src)
  /\ gSkipCalls' = Counted(gSkipCalls, key, CachedDataSourceGetitem(gSink, gSource, gSkip, key).skip)
  /\ gLast' = CtupDone(FALSE, <<key>>, CachedDataSourceGetitem(gSink, gSource, gSkip, key).raised, 1,
                       IF CachedDataSourceGetitem(gSink, gSource, gSkip, key).raised THEN <<>>
                       ELSE <<CachedDataSourceGetitem(gSink, gSource, gSkip, key).result>>,
                       gSink,
                       CachedDataSourceGetitem(gSink, gSource, gSkip, key).src,
                       CachedDataSourceGetitem(gSink, gSource, gSkip, key).skip)
  /\ UNCHANGED <<gArg, gPos, gPartial, gBefore>>
  /\ UNCHANGED CtupConfig
  /\ CtupFrame

\* cached[keys], a tuple: tuple(self[single_key] for single_key in key) begins
CtupGetTuple(keys) ==
  /\ gPos = 0 /\ keys # <<>>
  /\ \A i \in 1..Len(keys) : gSrcGets[keys[i]] + Len(keys) <= MaxCalls
  /\ gArg' = keys
  /\ gPos' = 1
  /\ gPartial' = <<>>
  /\ gBefore' = gSink
  /\ UNCHANGED <<gSink, gSrcGets, gSkipCalls, gLast>>
  /\ UNCHANGED CtupConfig
  /\ CtupFrame

\* self[single_key] for the next position returns
CtupTupleFetch ==
  /\ gPos > 0 /\ gPos <= Len(gArg)
  /\ ~CachedDataSourceGetitem(gSink, gSource, gSkip, gArg[gPos]).raised
  /\ gSink' = CachedDataSourceGetitem(gSink, gSource, gSkip, gArg[gPos]).sink
  /\ gSrcGets' = Counted(gSrcGets, gArg[gPos], CachedDataSourceGetitem(gSink, gSource, gSkip, gArg[gPos]).src)
  /\ gSkipCalls' = Counted(gSkipCalls, gArg[gPos], CachedDataSourceGetitem(gSink, gSource, gSkip, gArg[gPos]).skip)
  /\ gPartial' = Append(gPartial, CachedDataSourceGetitem(gSink, gSource, gSkip, gArg[gPos]).result)
  /\ gPos' = gPos + 1
  /\ UNCHANGED <<gArg, gBefore, gLast>>
  /\ UNCHANGED CtupConfig
  /\ CtupFrame

\* self[single_key] for the next position raises KeyError: the generator
\* and what it has produced are dropped, the KeyError goes to the caller
CtupTupleFail ==
  /\ gPos > 0 /\ gPos <= Len(gArg)
  /\ CachedDataSourceGetitem(gSink, gSource, gSkip, gArg[gPos]).raised
  /\ gSink' = CachedDataSourceGetitem(gSink, gSource, gSkip, gArg[gPos]).sink
  /\ gSrcGets' = Counted(gSrcGets, gArg[gPos], CachedDataSourceGetitem(gSink, gSource, gSkip, gArg[gPos]).src)
  /\ gSkipCalls' = Counted(gSkipCalls, gArg[gPos], CachedDataSourceGetitem(gSink, gSource, gSkip, gArg[gPos]).skip)
  /\ gLast' = CtupDone(TRUE, gArg, TRUE, gPos, <<>>, gBefore,
                       CachedDataSourceGetitem(gSink, gSource, gSkip, gArg[gPos]).src,
                       CachedDataSourceGetitem(gSink, gSource, gSkip, gArg[gPos]).skip)
  /\ gArg' = <<>>
  /\ gPos' = 0
  /\ gPartial' = <<>>
  /\ UNCHANGED gBefore
  /\ UNCHANGED CtupConfig
  /\ CtupFrame

\* every position is fetched: return result
CtupTupleReturn ==
  /\ gPos > Len(gArg)
  /\ gLast' = CtupDone(TRUE, gArg, FALSE, Len(gArg), gPartial, gBefore, FALSE, FALSE)
  /\ gArg' = <<>>
  /\ gPos' = 0
  /\ gPartial' = <<>>
  /\ UNCHANGED <<gSink, gBefore, gSrcGets, gSkipCalls>>
  /\ UNCHANGED CtupConfig
  /\ CtupFrame

CtupNext ==
  \/ \E key \in Dom : CtupGetSingle(key)
  \/ \E keys \in TuplesUpTo(Dom, MaxLen) : CtupGetTuple(keys)
  \/ CtupTupleFetch
  \/ CtupTupleFail
  \/ CtupTupleReturn

\* ------------------------------ query wrapper with failing query or fetch

\* The outcome of one single-key get: what was raised ("" for a return,
\* "query" for query()'s exception, "fetch" for the source's KeyError), the
\* value, the resolution cache afterwards, whether query() ran, and the
\* data id that was fetched, if one was.
Resolved(raised, val, cache, queried, fetched) ==
  [raised |-> raised, val |-> val, cache |-> cache, queried |-> queried, fetched |-> fetched]

\* A mutant of QueryDataSourceGetitem: the resolution is stored after the
\* data have been fetched.
QueryDataSourceGetitemStoresLast(cache, query, data, key) ==
  IF cache[key] = None /\ query[key] = None THEN Resolved("query", 0, cache, TRUE, None)
  ELSE LET data_id == IF cache[key] # None THEN cache[key][1] ELSE query[key][1]
       IN IF data[data_id] = None
            THEN Resolved("fetch", 0, cache, cache[key] = None, Some(data_id))
            ELSE Resolved("", data[data_id][1], [cache EXCEPT ![key] = Some(data_id)],
                          cache[key] = None, Some(data_id))

\* _QueryDataSource.__getitem__, single key, with a resolution cache:
\*   try: data_id = self._query_cache[key]
\*   except KeyError:
\*     data_id = self._datasource.query(**key); self._query_cache[key] = data_id
\*   result = self._datasource[data_id]
QueryDataSourceGetitem(cache, query, data, key) ==
  IF cache[key] = None /\ query[key] = None THEN Resolved("query", 0, cache, TRUE, None)
  ELSE LET data_id == IF cache[key] # None THEN cache[key][1] ELSE query[key][1]
       IN IF data[data_id] = None
            THEN Resolved("fetch", 0, [cache EXCEPT ![key] = Some(data_id)], cache[key] = None, Some(data_id))
            ELSE Resolved("", data[data_id][1], [cache EXCEPT ![key] = Some(data_id)],
                          cache[key] = None, Some(data_id))

\* The get that ended: its key, the outcome, and the cache before it.
ResDone(key, raised, val, queried, before) ==
  [key |-> key, raised |-> raised, val |-> val, queried |-> queried, before |-> before]

ResIdle ==
  /\ nQuery = [k \in Dom |-> None]
  /\ nData = [i \in Dom |-> None]
  /\ nCache = [k \in Dom |-> None]
  /\ nQueries = [k \in Dom |-> 0]
  /\ nFetches = [i \in Dom |-> 0]
  /\ nLast = ResDone(0, "none", 0, FALSE, [k \in Dom |-> None])

\* After construction: an empty resolution cache, no get yet.
ResInit ==
  /\ nQuery \in [Dom -> Optional(Dom)]
  /\ nData \in [Dom -> Optional(Dom)]
  /\ nCache = [k \in Dom |-> None]
  /\ nQueries = [k \in Dom |-> 0]
  /\ nFetches = [i \in Dom |-> 0]
  /\ nLast = ResDone(0, "none", 0, FALSE, [k \in Dom |-> None])

ResFrame == UNCHANGED <<pipeVars, cacheVars, queryVars, weakVars, metaVars, lockVars, ctxVars, mapVars, reduceVars, bindVars, shiftVars, synthVars, instVars, identVars, subVars, multiVars, ctupVars>>

\* wrapper[key], single key
ResGetitem(key) ==
  /\ nQueries[key] < MaxCalls
  /\ \A i \in Dom : nFetches[i] < MaxCalls
  /\ nCache' = QueryDataSourceGetitem(nCache, nQuery, nData, key).cache
  /\ nQueries' = IF QueryDataSourceGetitem(nCache, nQuery, nData, key).queried
                   THEN [nQueries EXCEPT ![key] = @ + 1] ELSE nQueries
  /\ nFetches' = IF QueryDataSourceGetitem(nCache, nQuery, nData, key).fetched # None
                   THEN [nFetches EXCEPT ![QueryDataSourceGetitem(nCache, nQuery, nData, key).fetched[1]] = @ + 1]
                   ELSE nFetches
  /\ nLast' = ResDone(key, QueryDataSourceGetitem(nCache, nQuery, nData, key).raised,
                      QueryDataSourceGetitem(nCache, nQuery, nData, key).val,
                      QueryDataSourceGetitem(nCache, nQuery, nData, key).queried, nCache)
  /\ UNCHANGED <<nQuery, nData>>
  /\ ResFrame

\* The data of an id arrive at the source or are removed from it.
ResSourceChange(i, value) ==
  /\ nData[i] # value
  /\ nData' = [nData EXCEPT ![i] = value]
  /\ UNCHANGED <<nQuery, nCache, nQueries, nFetches, nLast>>
  /\ ResFrame

ResNext ==
  \/ \E key \in Dom : ResGetitem(key)
  \/ \E i \in Dom, value \in Optional(Dom) : ResSourceChange(i, value)

\* -------------------------------------------------------- specifications

\* Gets on a query wrapper whose query or whose fetch may fail.
InitRes == ResInit /\ PipeIdle /\ CacheIdle /\ QueryIdle /\ WeakIdle /\ MetaIdle /\ LockIdle /\ CtxIdle /\ MapIdle /\ ReduceIdle /\ BindIdle /\ ShiftIdle /\ SynthIdle /\ InstIdle /\ IdentIdle /\ SubIdle /\ MultiIdle /\ CtupIdle
SpecRes == InitRes /\ [][ResNext]_vars

\* Single-key and multi-key gets on a cached data source, one after another.
InitCtup == CtupInit /\ PipeIdle /\ CacheIdle /\ QueryIdle /\ WeakIdle /\ MetaIdle /\ LockIdle /\ CtxIdle /\ MapIdle /\ ReduceIdle /\ BindIdle /\ ShiftIdle /\ SynthIdle /\ InstIdle /\ IdentIdle /\ SubIdle /\ MultiIdle /\ ResIdle
SpecCtup == InitCtup /\ [][CtupNext]_vars

\* Gets on a MultiDataSource over sub-datasources that are written to.
InitMulti == MultiInit /\ PipeIdle /\ CacheIdle /\ QueryIdle /\ WeakIdle /\ MetaIdle /\ LockIdle /\ CtxIdle /\ MapIdle /\ ReduceIdle /\ BindIdle /\ ShiftIdle /\ SynthIdle /\ InstIdle /\ IdentIdle /\ SubIdle /\ CtupIdle /\ ResIdle
SpecMulti == InitMulti /\ [][MultiNext]_vars

\* Threads taking locks of several keys on several paths.
InitSub == SubInit /\ PipeIdle /\ CacheIdle /\ QueryIdle /\ WeakIdle /\ MetaIdle /\ LockIdle /\ CtxIdle /\ MapIdle /\ ReduceIdle /\ BindIdle /\ ShiftIdle /\ SynthIdle /\ InstIdle /\ IdentIdle /\ MultiIdle /\ CtupIdle /\ ResIdle
SpecSub == InitSub /\ [][SubNext]_vars

\* The side-table with live key objects that may compare equal.
InitIdent == IdentInit /\ PipeIdle /\ CacheIdle /\ QueryIdle /\ WeakIdle /\ MetaIdle /\ LockIdle /\ CtxIdle /\ MapIdle /\ ReduceIdle /\ BindIdle /\ ShiftIdle /\ SynthIdle /\ InstIdle /\ SubIdle /\ MultiIdle /\ CtupIdle /\ ResIdle
SpecIdent == InitIdent /\ [][IdentNext]_vars

\* Pipeline instances of one cached data source class.
InitInst == InstInit /\ PipeIdle /\ CacheIdle /\ QueryIdle /\ WeakIdle /\ MetaIdle /\ LockIdle /\ CtxIdle /\ MapIdle /\ ReduceIdle /\ BindIdle /\ ShiftIdle /\ SynthIdle /\ IdentIdle /\ SubIdle /\ MultiIdle /\ CtupIdle /\ ResIdle
SpecInst == InitInst /\ [][InstNext]_vars

\* A class composed of two or three constituents, and its instantiations.
InitSynth == SynthInit /\ PipeIdle /\ CacheIdle /\ QueryIdle /\ WeakIdle /\ MetaIdle /\ LockIdle /\ CtxIdle /\ MapIdle /\ ReduceIdle /\ BindIdle /\ ShiftIdle /\ InstIdle /\ IdentIdle /\ SubIdle /\ MultiIdle /\ CtupIdle /\ ResIdle
SpecSynth == InitSynth /\ [][SynthNext]_vars

\* Pipelines defined with >> and the wrapper functions, and calls on them.
InitShift == ShiftInit /\ PipeIdle /\ CacheIdle /\ QueryIdle /\ WeakIdle /\ MetaIdle /\ LockIdle /\ CtxIdle /\ MapIdle /\ ReduceIdle /\ BindIdle /\ SynthIdle /\ InstIdle /\ IdentIdle /\ SubIdle /\ MultiIdle /\ CtupIdle /\ ResIdle
SpecShift == InitShift /\ [][ShiftNext]_vars

\* Query wrappers built for each kind of by, and their gets.
InitBind == BindInit /\ PipeIdle /\ CacheIdle /\ QueryIdle /\ WeakIdle /\ MetaIdle /\ LockIdle /\ CtxIdle /\ MapIdle /\ ReduceIdle /\ ShiftIdle /\ SynthIdle /\ InstIdle /\ IdentIdle /\ SubIdle /\ MultiIdle /\ CtupIdle /\ ResIdle
SpecBind == InitBind /\ [][BindNext]_vars

\* A multi-key source wrapped by reduce.
InitReduce == ReduceInit /\ PipeIdle /\ CacheIdle /\ QueryIdle /\ WeakIdle /\ MetaIdle /\ LockIdle /\ CtxIdle /\ MapIdle /\ BindIdle /\ ShiftIdle /\ SynthIdle /\ InstIdle /\ IdentIdle /\ SubIdle /\ MultiIdle /\ CtupIdle /\ ResIdle
SpecReduce == InitReduce /\ [][ReduceNext]_vars

\* A run context and the calls of its map.
InitMap == MapInit /\ PipeIdle /\ CacheIdle /\ QueryIdle /\ WeakIdle /\ MetaIdle /\ LockIdle /\ CtxIdle /\ ReduceIdle /\ BindIdle /\ ShiftIdle /\ SynthIdle /\ InstIdle /\ IdentIdle /\ SubIdle /\ MultiIdle /\ CtupIdle /\ ResIdle
SpecMap == InitMap /\ [][MapNext]_vars

\* A component class, an instance of it, and their run contexts.
InitCtx == CtxInit /\ PipeIdle /\ CacheIdle /\ QueryIdle /\ WeakIdle /\ MetaIdle /\ LockIdle /\ MapIdle /\ ReduceIdle /\ BindIdle /\ ShiftIdle /\ SynthIdle /\ InstIdle /\ IdentIdle /\ SubIdle /\ MultiIdle /\ CtupIdle /\ ResIdle
SpecCtx == InitCtx /\ [][CtxNext]_vars

\* Threads that enter and leave with-blocks of one lock path and key.
InitLock == LockInit /\ PipeIdle /\ CacheIdle /\ QueryIdle /\ WeakIdle /\ MetaIdle /\ CtxIdle /\ MapIdle /\ ReduceIdle /\ BindIdle /\ ShiftIdle /\ SynthIdle /\ InstIdle /\ IdentIdle /\ SubIdle /\ MultiIdle /\ CtupIdle /\ ResIdle
SpecLock == InitLock /\ [][LockNext]_vars

\* Values with metadata and functions decorated with keepmeta.
InitMeta == MetaInit /\ PipeIdle /\ CacheIdle /\ QueryIdle /\ WeakIdle /\ LockIdle /\ CtxIdle /\ MapIdle /\ ReduceIdle /\ BindIdle /\ ShiftIdle /\ SynthIdle /\ InstIdle /\ IdentIdle /\ SubIdle /\ MultiIdle /\ CtupIdle /\ ResIdle
SpecMeta == InitMeta /\ [][MetaNext]_vars

\* The pipeline classes and the fan-out of RunContext.map.
InitPipe == PipeInit /\ CacheIdle /\ QueryIdle /\ WeakIdle /\ MetaIdle /\ LockIdle /\ CtxIdle /\ MapIdle /\ ReduceIdle /\ BindIdle /\ ShiftIdle /\ SynthIdle /\ InstIdle /\ IdentIdle /\ SubIdle /\ MultiIdle /\ CtupIdle /\ ResIdle
SpecPipe == InitPipe /\ [][PipeNext]_vars

\* The weak-identity side-table and the objects that key it.
InitWeak == WeakInit /\ PipeIdle /\ CacheIdle /\ QueryIdle /\ MetaIdle /\ LockIdle /\ CtxIdle /\ MapIdle /\ ReduceIdle /\ BindIdle /\ ShiftIdle /\ SynthIdle /\ InstIdle /\ IdentIdle /\ SubIdle /\ MultiIdle /\ CtupIdle /\ ResIdle
SpecWeak == InitWeak /\ [][WeakNext]_vars

\* The query wrappers, with and without the shared resolution cache.
InitQuery == QueryInit /\ PipeIdle /\ CacheIdle /\ WeakIdle /\ MetaIdle /\ LockIdle /\ CtxIdle /\ MapIdle /\ ReduceIdle /\ BindIdle /\ ShiftIdle /\ SynthIdle /\ InstIdle /\ IdentIdle /\ SubIdle /\ MultiIdle /\ CtupIdle /\ ResIdle
SpecQuery == InitQuery /\ [][QueryNext]_vars

\* Sequential callers (one get after another).
InitCacheSeq == CacheInit(FALSE) /\ PipeIdle /\ QueryIdle /\ WeakIdle /\ MetaIdle /\ LockIdle /\ CtxIdle /\ MapIdle /\ ReduceIdle /\ BindIdle /\ ShiftIdle /\ SynthIdle /\ InstIdle /\ IdentIdle /\ SubIdle /\ MultiIdle /\ CtupIdle /\ ResIdle
SpecCacheSeq == InitCacheSeq /\ [][CacheNext]_vars

\* Concurrent callers: the steps of overlapping gets interleave.
InitCachePar == CacheInit(TRUE) /\ PipeIdle /\ QueryIdle /\ WeakIdle /\ MetaIdle /\ LockIdle /\ CtxIdle /\ MapIdle /\ ReduceIdle /\ BindIdle /\ ShiftIdle /\ SynthIdle /\ InstIdle /\ IdentIdle /\ SubIdle /\ MultiIdle /\ CtupIdle /\ ResIdle
SpecCachePar == InitCachePar /\ [][CacheNext]_vars

\* ------------------------------------------------ claims on the pipeline

PipeSingleDone == pPc = "done" /\ ~pKey.tuple
PipeTupleDone == pPc = "done" /\ pKey.tuple

\* C3: output direction. For every single key k held by S,
\* (S >> T).get(k) == T(S.get(k)): the source is fetched with the unmodified
\* key k, and T is applied exactly once, to the fetched value.
C3_OutputDirection ==
  (PipeSingleDone /\ pKind = "out" /\ pSource[pKey.ks[1]] # None) =>
    LET k == pKey.ks[1]
        v == pSource[k][1]
    IN /\ pResult.status = "value"
       /\ pResult.vals[1].val = Transform(pShift, v)
       /\ pResult.vals[1].fetched = <<k>>
       /\ pResult.vals[1].applied = <<v>>

\* C3 witness: S >> T returned T(S.get(k)) for a T that is not the identity
\* and a source where the other direction gives another value.
C3_Witness ==
  /\ PipeSingleDone /\ pKind = "out" /\ pShift # 0
  /\ pSource[pKey.ks[1]] # None
  /\ pResult.status = "value"
  /\ pSource[Transform(pShift, pKey.ks[1])] # Some(pResult.vals[1].val)

\* C4: input direction. For every single key k, (T >> S).get(k) ==
\* S.get(T(k)): T is applied to the key, the source is fetched only with the
\* transformed key (never with k itself when T moves k), the fetched value
\* is returned unmodified (a missing T(k) raises), and the call is told
\* apart from (S >> T).get(k) by the key the source is asked for whenever T
\* is not the identity.
C4_InputDirection ==
  (PipeSingleDone /\ pKind = "in") =>
    LET k == pKey.ks[1]
        nk == Transform(pShift, k)
    IN /\ pSource[nk] = None => pResult.status = "KeyError"
       /\ pSource[nk] # None =>
            /\ pResult.status = "value"
            /\ pResult.vals[1].val = pSource[nk][1]
            /\ pResult.vals[1].applied = <<k>>
            /\ pResult.vals[1].fetched = <<nk>>
            /\ pShift # 0 =>
                 /\ \A j \in 1..Len(pResult.vals[1].fetched) : pResult.vals[1].fetched[j] # k
                 /\ pResult.vals[1].fetched # ModifiedOutputGetitem(pSource, pShift, k).fetched

\* C4 witness: T >> S returned S.get(T(k)) where S holds k as well and
\* S >> T returns another value for the same key.
C4_Witness ==
  /\ PipeSingleDone /\ pKind = "in" /\ pShift # 0
  /\ pResult.status = "value"
  /\ pSource[pKey.ks[1]] # None
  /\ ModifiedOutputGetitem(pSource, pShift, pKey.ks[1]).val # pResult.vals[1].val

\* C5: order preservation. For every tuple of keys K (any length,
\* duplicates allowed) and every worker configuration, a multi-key get that
\* returns gives a tuple R with len(R) == len(K) and R[i] == get(K[i]) for
\* every i, whatever the order the per-key calls finished in, and it does
\* return when S holds every key; a non-tuple key gives the single value.
C5_OrderPreserved ==
  /\ PipeTupleDone =>
       /\ pResult.status \in {"tuple", "KeyError"}
       /\ (\A i \in 1..Len(pKey.ks) : SingleGetitem(pKind, pSource, pShift, pKey.ks[i]).ok)
            => pResult.status = "tuple"
       /\ pResult.status = "tuple" =>
            /\ Len(pResult.vals) = Len(pKey.ks)
            /\ \A i \in 1..Len(pKey.ks) :
                 pResult.vals[i] = SingleGetitem(pKind, pSource, pShift, pKey.ks[i])
  /\ PipeSingleDone =>
       /\ pResult.status \in {"value", "KeyError"}
       /\ pResult.status = "value" =>
            pResult.vals = <<SingleGetitem(pKind, pSource, pShift, pKey.ks[1])>>

\* C5 witness: a parallel map over keys with different values returned its
\* tuple.
C5_Witness ==
  /\ PipeTupleDone /\ pResult.status = "tuple"
  /\ IsParallel(pNum, pMax, pKey.ks)
  /\ Len(pKey.ks) = MaxLen
  /\ pResult.vals[1].val # pResult.vals[MaxLen].val

\* C6: if the per-key get fails (KeyError) for at least one element of a
\* key tuple, the whole multi-key get raises that error and returns no
\* partial tuple of the successful elements, in serial and parallel mode.
C6_NoPartialResult ==
  (PipeTupleDone /\ \E i \in 1..Len(pKey.ks) :
       ~SingleGetitem(pKind, pSource, pShift, pKey.ks[i]).ok) =>
    /\ pResult.status = "KeyError"
    /\ pResult.vals = <<>>

\* C6 witness: a parallel map raised although one of its tasks had
\* succeeded.
C6_Witness ==
  /\ PipeTupleDone /\ pResult.status = "KeyError"
  /\ IsParallel(pNum, pMax, pKey.ks)
  /\ \E i \in 1..Len(pSlots) : pSlots[i] # None /\ pSlots[i][1].ok
  /\ \E i \in 1..Len(pSlots) : pSlots[i] # None /\ ~pSlots[i][1].ok

\* --------------------------------------------- claims on the cache wrapper

\* C1: for a cached source without a skip predicate, a key k absent from
\* the sink and present in S: after any number n >= 1 of sequential
\* cached.get(k) calls, S.get(k) has run exactly once and the sink has been
\* written for k exactly once, and every call has returned the same value.
C1_FillOnce ==
  \A k \in Dom :
    (cSkip = "none" /\ cSource[k] # None /\ cDone[k] >= 1) =>
      /\ cSrcGets[k] = 1
      /\ cSinkSets[k] = 1
      /\ Cardinality(cReturns[k]) = 1

\* C1 witness: two sequential calls for the same key have returned, the
\* second one from the sink.
C1_Witness ==
  /\ cSkip = "none" /\ ~cConcurrent
  /\ cLast.via = "hit"
  /\ cDone[cLast.key] >= 2
  /\ cSrcGets[cLast.key] = 1

\* C2: the cache fill is at most once under concurrency as well: for every
\* interleaving of concurrent cached.get(k) calls on a key absent from the
\* sink (and held by S, no skip predicate), S.get(k) runs at most once and
\* the sink is written at most once.
C2_FillOnceConcurrent ==
  \A k \in Dom :
    (cSkip = "none" /\ cSource[k] # None) => (cSrcGets[k] <= 1 /\ cSinkSets[k] <= 1)

\* C7: skip predicate. On a miss for key k where the source returns v and
\* skip_if(k, v) is true, cached.get(k) returns v itself and the sink is not
\* written (it holds no entry for k afterwards); for keys where skip_if is
\* false the sink is populated.
C7_SkipBypassesSink ==
  /\ cLast.via = "skip" =>
       /\ cLast.val = cSource[cLast.key][1]
       /\ cSink[cLast.key] = None
       /\ cSinkSets[cLast.key] = 0
  /\ \A k \in Dom :
       (cSource[k] # None /\ cDone[k] >= 1) =>
         IF SkipIf(cSkip, k, cSource[k][1])
           THEN cSink[k] = None /\ cReturns[k] = {cSource[k][1]}
           ELSE cSink[k] = Some(SinkConvert(cConv, cSource[k][1]))

\* C7 witness: a call was skipped while another key, for which the
\* predicate is false, has been stored.
C7_Witness ==
  /\ cLast.via = "skip"
  /\ \E k \in Dom : k # cLast.key /\ cSink[k] # None

\* C8: on a miss that is not skipped the steps are sink read (miss), source
\* load, sink store, sink re-read, and the value returned is what the sink
\* returns on the re-read after the store, not the in-memory value produced
\* by the source.
C8_RereadAfterStore ==
  cLast.via = "miss" =>
    /\ cLast.steps = <<"read", "load", "store", "reread">>
    /\ cLast.data = cSource[cLast.key][1]
    /\ cLast.val = SinkConvert(cConv, cLast.data)
    /\ cSink[cLast.key] = Some(cLast.val)

\* C8 witness: a miss returned a value that differs from the one the source
\* produced.
C8_Witness ==
  /\ cLast.via = "miss"
  /\ cLast.val # cLast.data

\* --------------------------------------------- claims on the query wrapper

\* The gets of wrapper w with high-level key k that have returned.
Queried(w, k) == k \in KeysOf(w) /\ qGets[w][k] >= 1

C10_NoStaleEntry ==
  /\ \A a \in Addrs :
       wData[a] # None => (wOwner[a] \in Alive /\ wObjs[wOwner[a]].id = a)
  /\ (wLast.op = "collect" /\ wLast.val # None) => wLast.after = wLast.before - 1
  /\ (wLast.op = "get" /\ wLast.val # None) => wOwner[wObjs[wLast.obj].id] = wLast.obj

\* C10 witness: a keyed object has been collected, the table has shrunk,
\* and a new object at the same address has just been looked up.
C10_Witness ==
  /\ wLast.op = "get" /\ wLast.val = None
  /\ \E o \in 1..Len(wObjs) :
       /\ wObjs[o].state = "collected"
       /\ wObjs[o].id = wObjs[wLast.obj].id
       /\ wOwner[wObjs[o].id] = o

KeepMetaCarried ==
  \A k \in MetaKeys :
    mLast.meta[k] # None => GetMeta(MetaStore(mLocal, mGlobal), mLast.out)[k] = mLast.meta[k]

Meta(o) == GetMeta(MetaStore(mLocal, mGlobal), o)

\* C27: setmeta updates and never removes: a setmeta(o, **kwargs) call
\* that returns leaves getmeta(o) with every given name at its given value
\* and every other name at the value it had, and the metadata of the other
\* objects as it was; getmeta on an object with no metadata returns the
\* empty mapping without raising; mutating a mapping that getmeta
\* returned changes no stored metadata.
C27_SetMetaAccumulates ==
  [][/\ (mLast'.op = "setmeta" /\ ~mLast'.raised) =>
          \A o \in MetaObjs, k \in MetaKeys :
            Meta(o)'[k] = IF o = mLast'.out /\ mLast'.meta[k] # None
                            THEN mLast'.meta[k] ELSE Meta(o)[k]
     /\ (mLast'.op = "getmeta" /\ mLocal[mLast'.inp] = None /\ mGlobal[mLast'.inp] = None) =>
          (mLast'.meta = EmptyMeta /\ ~mLast'.raised)
     /\ mLast'.op = "mutate" => \A o \in MetaObjs : Meta(o)' = Meta(o)]_vars

\* C27 witness: a second setmeta on an object gave a new name and left an
\* earlier one out, and both are in its metadata.
C27_Witness ==
  /\ mLast.op = "setmeta" /\ ~mLast.raised
  /\ mLast.meta["a"] = None /\ Meta(mLast.out)["a"] # None
  /\ \E o \in MetaObjs : o # mLast.out /\ Meta(o) # EmptyMeta

\* C27 second witness state: a mapping returned for an object with stored
\* global metadata has been mutated by the caller and differs from it.
C27_MutatedCopy ==
  /\ mLast.op = "mutate"
  /\ mGlobal[mLast.inp] # None
  /\ mLast.meta # Meta(mLast.inp)

\* C28: after clearmeta(o), getmeta(o) is the empty mapping whatever was
\* stored before, locally or in the global dict; clearmeta does not raise,
\* also for an object without metadata; the metadata of the other objects
\* is unchanged.
C28_ClearMetaEmpties ==
  [][mLast'.op = "clearmeta" =>
       /\ ~mLast'.raised
       /\ \A o \in MetaObjs :
            Meta(o)' = IF o = mLast'.inp THEN EmptyMeta ELSE Meta(o)]_vars

\* C28 witness: clearmeta has just emptied an object, while another object
\* of the other storage kind still has its metadata.
C28_Witness ==
  /\ mLast.op = "clearmeta"
  /\ mKind[mLast.inp] = "attr" /\ mLocal[mLast.inp] = Some(EmptyMeta)
  /\ \E o \in MetaObjs : mKind[o] = "weak" /\ Meta(o) # EmptyMeta

\* C29 as stated: a setmeta call, direct or through keepmeta on the
\* output, either makes every given name visible through getmeta or raises
\* TypeError, and it raises exactly when the object takes neither an
\* attribute nor a weak reference.
C29_TypeErrorOnlyWhenUnattachable ==
  mLast.op \in {"setmeta", "keepmeta"} =>
    /\ mLast.raised <=> mKind[mLast.out] = "none"
    /\ ~mLast.raised =>
         \A k \in MetaKeys : mLast.meta[k] # None => Meta(mLast.out)[k] = mLast.meta[k]

\* --------------------------------------------------- claims on the locks

C13_ReentrantNeverBlocks ==
  \A t \in Threads : Inside(t) => lPc[t] # "waiting"

\* The FileLock objects in use for the lock file: those of the instances
\* the threads hold and of the blocks they are inside, and the registered one.
FileLockObjects ==
  ({lInst[t] : t \in Threads} \cup UNION {{lStack[t][i] : i \in 1..Len(lStack[t])} : t \in Threads} \cup {lRegistry}) \ {0}

\* C39: within one process there is at most one underlying file-lock
\* object per lock file, for every interleaving of threads that construct
\* FileRLock instances for the same path and key concurrently.
C39_OneFileLockObject ==
  lKind = "file" => Cardinality(FileLockObjects) <= 1

\* ----------------------------------------------- claims on the run context

\* The last call resolved the context of the instance.
ResolvedForInstance == xLast.op \in {"getcontext", "from_obj"} /\ xLast.obj = "inst"

\* C14: run-context resolution priority. When the same option is set both
\* at instance level (registered for the instance) and at class level
\* (class-level context attribute), the context resolved for the instance
\* carries the instance-level value.
C14_InstanceOverridesClass ==
  (/\ ResolvedForInstance
   /\ xLast.before.global["inst"] # None
   /\ xLast.before.global["inst"][1]["option"] # None
   /\ xLast.before.attr # None
   /\ xLast.before.attr[1]["option"] # None)
  => xLast.ctx["option"] = xLast.before.global["inst"][1]["option"]

\* C15: a run context attached to the component class with
\* setcontext(option=n)(Class) is the context resolved for an instance
\* that has no instance-level context: RunContext.from_obj(instance)
\* reports the option as n.
C15_ClassContextReachesInstance ==
  (/\ ResolvedForInstance
   /\ xLast.before.global["inst"] = None
   /\ GetContext(xLast.before, "cls")["option"] # None)
  => xLast.ctx["option"] = GetContext(xLast.before, "cls")["option"]

\* C18: registering a run context with a name other than num_workers or
\* max_workers raises ValueError in strict mode, before the context of any
\* component is modified; in non-strict mode the unknown name is accepted
\* without error; a call with known names only never raises.
C18_StrictRejectsUnknown ==
  xLast.op = "setcontext" =>
    /\ xLast.raised = "ValueError" <=> (xLast.strict /\ xLast.kwargs["invalid_var"] # None)
    /\ xLast.raised = "ValueError" => (xAttr = xLast.before.attr /\ xGlobal = xLast.before.global)
    /\ xLast.raised = "" =>
         \A n \in CtxNames : xLast.kwargs[n] # None =>
           GetContext(CtxStore(xAttr, xGlobal), xLast.obj)[n] = xLast.kwargs[n]

\* C18 witness: a strict registration with an unknown name has just
\* raised, and the instance's registered context is as it was.
C18_Witness ==
  /\ xLast.op = "setcontext" /\ xLast.raised = "ValueError"
  /\ xLast.kwargs["option"] # None
  /\ xGlobal["inst"] # None
  /\ xGlobal["inst"][1]["option"] # xLast.kwargs["option"]

\* C37: resolving a run context is read-only. getcontext(obj) and
\* RunContext.from_obj(obj) leave the context registered for obj in the
\* global dict and the class-level context unchanged, and a mutation of
\* the returned mapping does not change what is resolved later.
C37_ResolveReadOnly ==
  /\ xLast.op \in {"getcontext", "from_obj"} =>
       (xGlobal = xLast.before.global /\ xAttr = xLast.before.attr)
  /\ xLast.op = "mutate" =>
       \A o \in CtxObjs : GetContext(CtxStore(xAttr, xGlobal), o) = GetContext(xLast.before, o)

\* C38: registering a run context on the instance changes the resolved
\* context of that instance only: the class-level context, and with it
\* what every other instance of the class resolves, is the same before
\* and after, whether or not the class defines a class-level context
\* attribute.
C38_InstanceRegistrationIsLocal ==
  (xLast.op = "setcontext" /\ xLast.obj = "inst" /\ xLast.raised = "") =>
    /\ xAttr = xLast.before.attr
    /\ GetContext(CtxStore(xAttr, xGlobal), "cls") = GetContext(xLast.before, "cls")

\* ---------------------------------------------- claims on RunContext.map

C17_EffectiveWorkers ==
  aPc # "idle" =>
    aWorkers =
      IF aNum # None /\ aMax # None
        THEN (IF aNum[1] <= aMax[1] THEN aNum ELSE aMax)
        ELSE IF aNum # None THEN aNum
        ELSE IF aMax # None THEN aMax
        ELSE None

\* C17 witness: both options are set, max_workers is the larger one, and
\* map has resolved the count to num_workers.
C17_Witness ==
  /\ aPc # "idle"
  /\ aNum # None /\ aMax # None
  /\ aNum[1] < aMax[1]
  /\ aWorkers = aNum

\* C35: in serial mode (resolved worker count unset or <= 1) a multi-key
\* get fetches the keys in input order, each element of the tuple at most
\* once (no retry; an element that occurs twice is fetched once per
\* occurrence), one at a time, and after the first failure fetches no
\* further key.
C35_SerialFetch ==
  (aPc # "idle" /\ (aWorkers = None \/ aWorkers[1] <= 1)) =>
    /\ \A j \in 1..Len(aLog) : aLog[j] = j
    /\ Cardinality(aRunning) <= 1
    /\ \A j \in 1..(Len(aLog) - 1) : aItems[j]
    /\ aPc = "raised" => ~aItems[Len(aLog)]
    /\ aPc = "returned" => Len(aLog) = Len(aItems)

\* C35 witness: with a worker count of at most 1 set, the first key of
\* several has failed and the get has raised with no other key fetched.
C35_Witness ==
  /\ aPc = "raised"
  /\ aWorkers # None /\ aWorkers[1] <= 1
  /\ Len(aItems) > 1 /\ aLog = <<1>>

\* ---------------------------------------------------- claims on reduce

\* The keys of the last get are all in the source.
ReduceKeysPresent == \A i \in 1..Len(rLast.key.vals) : rSource[rLast.key.vals[i]] # None

\* What the source holds for the keys of the last get, in key order.
ReduceSourceData ==
  Shaped(rLast.key.tuple, [i \in 1..Len(rLast.key.vals) |-> rSource[rLast.key.vals[i]][1]])

\* C19: reduce(S, T).get(key_or_keys) == T(S.get(key_or_keys)): the reduce
\* transform is invoked exactly once per call, on the whole result of the
\* underlying get (the full tuple when a tuple of keys is given), not once
\* per element; a get whose underlying get raises KeyError raises it too,
\* without invoking the transform.
C19_ReduceOnWholeResult ==
  rLast.op = "reduce" =>
    /\ rLast.out.ok <=> ReduceKeysPresent
    /\ rLast.out.ok =>
         /\ rLast.out.applied = <<ReduceSourceData>>
         /\ rLast.out.res = Shaped(TRUE, <<SumSeq(ReduceSourceData.vals)>>)
    /\ ~rLast.out.ok => rLast.out.applied = <<>>

\* C19 witness: a get with a tuple of several keys has returned the
\* one-element result of a single call of the transform on the full tuple.
C19_Witness ==
  /\ rLast.op = "reduce" /\ rLast.out.ok
  /\ rLast.key.tuple /\ Len(rLast.key.vals) >= 2
  /\ Len(rLast.out.applied) = 1
  /\ Len(rLast.out.applied[1].vals) = Len(rLast.key.vals)
  /\ Len(rLast.out.res.vals) = 1
  /\ rLast.out.res.vals[1] > 0

\* ------------------------------------------ claims on query key binding

\* C20: query key binding. With by=None the key is passed as query(**key);
\* with by a field name f the call is query(**{f: key}); with by a
\* callable g the call is query(**g(key)); in each mode get(key) returns
\* the source's value for the ids returned by that query call. Any other
\* kind of by raises TypeError when the wrapper is built, so no wrapper
\* with such a by exists to be called.
C20_KeyBinding ==
  /\ bLast.op = "get" =>
       /\ bLast.by = "none" => bLast.kwargs = [x |-> bLast.key.x, y |-> bLast.key.y]
       /\ bLast.by = "x" => bLast.kwargs = [x |-> bLast.key.s, y |-> None]
       /\ bLast.by = "y" => bLast.kwargs = [x |-> None, y |-> bLast.key.s]
       /\ bLast.by = "callable" => bLast.kwargs = [x |-> bLast.key.s, y |-> Some(3)]
       /\ bLast.ids = QueryFun(bLast.kwargs)
       /\ bLast.val = bLast.ids * bLast.ids
       /\ bLast.raised = ""
  /\ bLast.op = "build" => (bLast.raised = "TypeError" <=> bLast.by = "other")
  /\ "other" \notin bBuilt

\* C20 witness: wrappers of all three modes are built, a build with
\* another kind of by has raised before, and the by="y" wrapper has just
\* answered key 1 through query(y=1).
C20_Witness ==
  /\ bBuilt = {"none", "x", "y", "callable"}
  /\ bLast.op = "get" /\ bLast.by = "y"
  /\ bLast.key.s = Some(1)
  /\ bLast.kwargs = [x |-> None, y |-> Some(1)]
  /\ bLast.val = 1

\* ------------------------------------------------ claims on the >> operator

\* The operands of the expression that built a class, from left to right
\* as they were written.
RECURSIVE Stages(_, _)
Stages(written, op) ==
  IF op.ix = 0 THEN <<op>>
  ELSE Stages(written, written[op.ix][1]) \o Stages(written, written[op.ix][2])

RECURSIVE OnlyRshift(_, _)
OnlyRshift(built, op) ==
  \/ op.ix = 0
  \/ /\ built[op.ix].kind \in {"input", "output", "composed"}
     /\ OnlyRshift(built, built[op.ix].first)
     /\ OnlyRshift(built, built[op.ix].second)

\* The stages applied one after another to a value.
RECURSIVE RunStages(_, _)
RunStages(stages, res) ==
  IF stages = <<>> \/ res.exc # "" THEN res
  ELSE RunStages(Tail(stages),
                 IF Head(stages).cat = "source"
                   THEN IF SourceGetitem(res.val) = None
                          THEN Raised("KeyError")
                          ELSE Value(SourceGetitem(res.val)[1])
                   ELSE Value(TransformFn(Head(stages).fn, res.val)))

\* C21: chains apply their stages left to right whatever the grouping. A
\* call or a get on a class built with >> returns what applying the
\* operands of its expression one after another, in the order they are
\* written, returns:
\* (T1 >> T2)(x) = T2(T1(x)), (T1 >> T2 >> S)[k] = (T1 >> (T2 >> S))[k] =
\* S[T2(T1(k))], (S >> T1 >> T2)[k] = T2(T1(S[k])), (T1 >> S >> T2)[k] =
\* T2(S[T1(k)]).
C21_LeftToRight ==
  (eLast.op \in {"call", "get"} /\ OnlyRshift(eBuilt, eLast.a)) =>
    eLast.out = RunStages(Stages(eWritten, eLast.a), Value(eLast.key))

\* A get on T1 >> (T2 >> S) with two different transforms that returned.
C21_Witness ==
  /\ eLast.op = "get"
  /\ eLast.a.ix > 0
  /\ eWritten[eLast.a.ix][1].fn = "inc"
  /\ eWritten[eLast.a.ix][2].ix > 0
  /\ eWritten[eWritten[eLast.a.ix][2].ix][1].fn = "dbl"
  /\ eWritten[eWritten[eLast.a.ix][2].ix][2].cat = "source"
  /\ eLast.out.exc = ""
  /\ Some(eLast.out.val) = SourceGetitem(TransformFn("dbl", TransformFn("inc", eLast.key)))
  /\ Some(eLast.out.val) # SourceGetitem(TransformFn("inc", TransformFn("dbl", eLast.key)))

\* C24: a >> with an operand that is neither a transform nor a data source
\* raises TypeError when the expression is evaluated and builds no class,
\* so no class built with >> has such a constituent for a later get to meet.
C24_TypeErrorAtDefinition ==
  /\ (eLast.op = "rshift" /\ (eLast.a.cat = "other" \/ eLast.b.cat = "other")) =>
       (eLast.out = Raised("TypeError") /\ Len(eBuilt) = eLast.before)
  /\ \A i \in 1..Len(eBuilt) :
       eBuilt[i].kind \in {"input", "output", "composed"} =>
         (eBuilt[i].first.cat # "other" /\ eBuilt[i].second.cat # "other")

\* A composed class >> a value that is neither: TypeError, nothing built.
C24_Witness ==
  /\ eLast.op = "rshift"
  /\ eLast.a.ix > 0
  /\ eLast.b.cat = "other"
  /\ eLast.out = Raised("TypeError")
  /\ Len(eBuilt) = eLast.before

\* The wrappers from op down to the innermost source all forward.
RECURSIVE ForwardingChain(_, _)
ForwardingChain(built, op) ==
  \/ op.ix = 0
  \/ /\ built[op.ix].kind \in {"input", "output", "cached", "query"}
     /\ ForwardingChain(built, DatasourceOf(built[op.ix]))

RECURSIVE InnermostSource(_, _)
InnermostSource(built, op) ==
  IF op.ix = 0 THEN op ELSE InnermostSource(built, DatasourceOf(built[op.ix]))

\* C25: a data source composed with >>, cache or query, at any depth,
\* answers an attribute it does not define itself with the innermost
\* source's attribute (AttributeError only if that source lacks it), so
\* query() on it runs the innermost source's query and the ids it returns
\* can be passed to its get.
C25_Delegation ==
  /\ (eLast.op = "getattr" /\ ForwardingChain(eBuilt, eLast.a) /\ eLast.name \notin WrapperAttrs) =>
       /\ eLast.b = InnermostSource(eBuilt, eLast.a)
       /\ eLast.out.exc = "" <=> eLast.name \in SourceAttrs
  /\ (eLast.op = "query_get" /\ ForwardingChain(eBuilt, eLast.a)) =>
       eLast.out = Getitem(eBuilt, eLast.a, SourceQuery(eLast.key))

\* query() on a cached composed source, its ids passed back to get.
C25_Witness ==
  /\ eLast.op = "query_get"
  /\ eLast.a.ix > 0
  /\ eBuilt[eLast.a.ix].kind = "cached"
  /\ eBuilt[eLast.a.ix].first.ix > 0
  /\ eBuilt[eBuilt[eLast.a.ix].first.ix].kind = "output"
  /\ eLast.out.exc = ""

\* ------------------------------------------------ claims on class synthesis

\* The classes, partials and instances underneath a composed class, from
\* left to right.
RECURSIVE LeavesOf(_)
LeavesOf(obj) ==
  IF obj.kind = "leaf" THEN <<obj>> ELSE LeavesOf(obj.first) \o LeavesOf(obj.second)

\* The constituent's own signature declares the argument, and no partial
\* has bound it.
DeclaredBy(leaf, n) == leaf.form # "instance" /\ leaf.sig[n].decl /\ leaf.bound[n] = None

ZLeaves == LeavesOf(zClass[1])
ZDeclared(n) == \E i \in 1..Len(ZLeaves) : DeclaredBy(ZLeaves[i], n)
ZLastDeclaring(n) ==
  CHOOSE i \in 1..Len(ZLeaves) :
    DeclaredBy(ZLeaves[i], n) /\ \A j \in (i + 1)..Len(ZLeaves) : ~DeclaredBy(ZLeaves[j], n)

\* The value the composed instance holds for a declared argument: the one
\* supplied, else the default of the last constituent that declares it.
ZValue(n) ==
  IF zLast.kwargs[n] # None THEN zLast.kwargs[n] ELSE ZLeaves[ZLastDeclaring(n)].sig[n].def

ZAccepted ==
  \A n \in ParamNames :
    /\ zLast.kwargs[n] # None => ZDeclared(n)
    /\ ZDeclared(n) => ZValue(n) # None

\* Each constituent is constructed with the names it declares, at the
\* composed instance's values; a partial keeps what it has bound.
ZConstituentsGetDeclared ==
  \A i \in 1..Len(ZLeaves), n \in ParamNames :
    zLast.got[i][n] = IF DeclaredBy(ZLeaves[i], n) THEN ZValue(n) ELSE ZLeaves[i].bound[n]

\* C22 as stated: the parameters of a composed class are the union of its
\* constituents' parameters, each constituent is constructed with the
\* arguments its signature declares, a shared name gives both the same
\* value, and omitting a parameter that some constituent requires fails
\* with TypeError at instantiation.
C22_RequiredByAnyConstituent ==
  (zClass # <<>> /\ zLast.op = "init") =>
    /\ zLast.raised = "" => ZConstituentsGetDeclared
    /\ (\E i \in 1..Len(ZLeaves), n \in ParamNames :
          /\ DeclaredBy(ZLeaves[i], n)
          /\ ZLeaves[i].sig[n].def = None
          /\ zLast.kwargs[n] = None) => zLast.raised = "TypeError"

\* C22, amended: the parameters of a composed class are the union of its
\* constituents' parameters (partial-bound ones excluded), through nested
\* composition; an instantiation raises TypeError exactly when it names a
\* parameter outside that union or omits one to which the last constituent
\* declaring it gives no default; otherwise every constituent is constructed
\* with exactly the names it declares, each at the supplied value or else
\* that last constituent's default, so a shared name gives all the same value.
C22_MergedParameters ==
  (zClass # <<>> /\ zLast.op = "init") =>
    /\ zLast.raised = "TypeError" <=> ~ZAccepted
    /\ ZAccepted => ZConstituentsGetDeclared

\* A nested composition with a partial and a name two constituents declare,
\* instantiated with that name left to its default and the other supplied.
C22_Witness ==
  /\ zClass # <<>>
  /\ zLast.op = "init"
  /\ zLast.raised = ""
  /\ Len(ZLeaves) = 3
  /\ \E i \in 1..3 : ZLeaves[i].form = "partial"
  /\ \E i, j \in 1..3 : i # j /\ DeclaredBy(ZLeaves[i], "p") /\ DeclaredBy(ZLeaves[j], "p")
  /\ zLast.kwargs["p"] = None
  /\ zLast.kwargs["q"] # None

\* Two constituents declare one init argument with different defaults.
DifferentDefaults(first, second) ==
  \E n \in ParamNames :
    /\ ExtractFields(first)[n].def # None
    /\ ExtractFields(second)[n].def # None
    /\ ExtractFields(first)[n].def # ExtractFields(second)[n].def

\* C23: composing two constituents that declare an init argument of one
\* name with different defaults raises TypeError at composition time, so
\* no composed class has two such constituents.
C23_DifferentDefaultsRejected ==
  zClass # <<>> => ~DifferentDefaults(zClass[1].first, zClass[1].second)

\* ------------------------------- claims on instances of one composed class

\* What pipeline instance q can observe of its constituent in role r: for
\* the source its data and its call count, for the sink its storage.
ConstituentState(q, r) ==
  IF r = "datasource"
    THEN <<iData[iRef[q][1][r]], iGets[iRef[q][1][r]]>>
    ELSE <<iSink[iRef[q][1][r]]>>

\* The step is an operation on a pipeline instance other than q.
OperationOnOther(q) ==
  /\ iRef[q] # None
  /\ iRef'[q] # None
  /\ iLast'.op \in {"set", "get"}
  /\ iLast'.p # q

C30_KeyedByIdentity ==
  /\ kLast.op \in {"getitem", "get", "contains", "setdefault"} => kLast.val = kOwn[kLast.obj]
  /\ kLast.op = "getitem" => (kLast.raised <=> kOwn[kLast.obj] = None)
  /\ \A o \in IdentObjs : kData[KeyId(o, kEq)] = kOwn[o]

\* C30 witness: two live objects that compare equal hold different
\* entries, one of them replaced after the other was set, and the other
\* has just been read.
C30_Witness ==
  \E a \in IdentObjs, b \in IdentObjs :
    /\ a # b /\ kEq[a] = kEq[b]
    /\ kOwn[a] # None /\ kOwn[b] # None /\ kOwn[a] # kOwn[b]
    /\ kLast.op = "getitem" /\ kLast.obj = b /\ kLast.val = kOwn[b]

\* ------------------------------------------ claims on locks with sub-keys

\* Thread t is inside a with-block on the path and key of inst.
InsideOn(t, inst) ==
  \E i \in 1..Len(sStack[t]) : sStack[t][i].path = inst.path /\ sStack[t][i].key = inst.key

\* C31: calling a lock with a sub-key returns a new lock with that lock key
\* on the same lock path, and locks with different keys are independent: a
\* thread finds a lock held in __enter__ (it starts to wait, or gives up
\* waiting) only while some thread is inside the lock of the very same
\* path and key, never because of a lock held for another key.
C31_KeysIndependent ==
  [][/\ sLast'.made.path = sLast'.base.path /\ sLast'.made.key = sLast'.key
     /\ \A t \in Threads :
          ((sPc[t] = "ready" /\ sPc'[t] = "waiting") \/ (sPc[t] = "waiting" /\ sPc'[t] = "idle" /\ sStack'[t] = sStack[t]))
            => \E u \in Threads : InsideOn(u, sInst[t])]_vars

\* C31 witness: one thread is inside the lock of one key, and another
\* thread has entered the lock of the other key on the same path.
C31_Witness ==
  \E t \in Threads, u \in Threads :
    /\ t # u
    /\ Len(sStack[t]) = 1 /\ Len(sStack[u]) = 1
    /\ sStack[t][1].path = sStack[u][1].path
    /\ sStack[t][1].key # sStack[u][1].key
    /\ sLast.made.key = "k"

\* ----------------------------------------- claims on the MultiDataSource

\* The positions of the last get's list whose sub-datasource holds the key.
Holders == {i \in 1..Len(uLast.datasources) : uData[uLast.datasources[i]] # None}
FirstHolder == CHOOSE i \in Holders : \A j \in Holders : i <= j

\* The items the sub-datasource at position i holds for the key.
ItemsAt(i) ==
  {uData[uLast.datasources[i]][1].items[n] : n \in 1..Len(uData[uLast.datasources[i]][1].items)}

\* C32: a single-key get raises KeyError exactly when no sub-datasource
\* holds the key; with strategy first it returns the items of the first
\* sub-datasource in constructor order that holds the key and asks no
\* later one; with strategy all it returns every distinct item of all
\* sub-datasources holding the key; in both cases each item exactly once.
C32_SearchStrategy ==
  uLast.datasources # <<>> =>
    /\ uLast.raised <=> Holders = {}
    /\ \A i \in 1..Len(uLast.out), j \in 1..Len(uLast.out) : uLast.out[i] = uLast.out[j] => i = j
    /\ (~uLast.raised /\ uLast.strategy = "first") =>
         /\ {uLast.out[i] : i \in 1..Len(uLast.out)} = ItemsAt(FirstHolder)
         /\ uLast.consulted = FirstHolder
    /\ (~uLast.raised /\ uLast.strategy = "all") =>
         /\ {uLast.out[i] : i \in 1..Len(uLast.out)} = UNION {ItemsAt(i) : i \in Holders}
         /\ uLast.consulted = Len(uLast.datasources)

\* C32 witness: strategy first on a list whose first and second
\* sub-datasource hold the key with different items: only the first was
\* asked and only its items are returned.
C32_Witness ==
  /\ uLast.strategy = "first" /\ ~uLast.raised
  /\ Len(uLast.datasources) = 3
  /\ FirstHolder = 1 /\ 2 \in Holders
  /\ ItemsAt(1) \cap ItemsAt(2) = {} /\ ItemsAt(1) # {} /\ ItemsAt(2) # {}
  /\ uLast.consulted = 1
  /\ {uLast.out[i] : i \in 1..Len(uLast.out)} = ItemsAt(1)

\* C32 second witness state: strategy all on a list naming one
\* sub-datasource twice returned two items once each.
C32_AllOnce ==
  /\ uLast.strategy = "all" /\ ~uLast.raised
  /\ \E i \in Holders, j \in Holders : i # j /\ uLast.datasources[i] = uLast.datasources[j]
  /\ Len(uLast.out) = 2

\* ------------------- claims on single-key and multi-key cached gets

\* The key at which the last get ended.
LastKey == gLast.arg[gLast.pos]

\* C33: when a key is absent from the sink and the source raises KeyError
\* for it, the cached get raises KeyError, has consulted the source and has
\* written nothing for that key, so that a later get consults the source
\* again; a single-key get leaves the whole sink as it was; a multi-key
\* get that fails returns no partial result, and the keys before the
\* failing one are in the sink afterwards unless the skip predicate held
\* for them.
C33_FailureLeavesSink ==
  (gPos = 0 /\ gLast.arg # <<>>) =>
    /\ (~gLast.tuple /\ gSource[LastKey] = None /\ gLast.before[LastKey] = None) => gLast.raised
    /\ gLast.raised =>
         /\ gSource[LastKey] = None /\ gLast.before[LastKey] = None
         /\ gLast.src
         /\ gLast.out = <<>>
         /\ gSink[LastKey] = None
         /\ ~gLast.tuple => gSink = gLast.before
         /\ \A i \in 1..(gLast.pos - 1) :
              \/ gSink[gLast.arg[i]] # None
              \/ SkipIf(gSkip, gLast.arg[i], gSource[gLast.arg[i]][1])
         /\ \A k \in Dom :
              (\A i \in 1..(gLast.pos - 1) : gLast.arg[i] # k) => gSink[k] = gLast.before[k]

\* C33 witness: a multi-key get raised KeyError at its second key after it
\* had stored the first key, which is in the sink now.
C33_Witness ==
  /\ gPos = 0 /\ gLast.tuple /\ gLast.raised /\ gLast.pos = 2
  /\ gLast.before[gLast.arg[1]] = None
  /\ gSink[gLast.arg[1]] # None
  /\ gSrcGets[LastKey] >= 2

\* C34: the skip predicate is consulted only after a sink miss followed by
\* a successful source load: a get of a key the sink holds returns the
\* sink's value without calling the source or the skip predicate, also
\* when the predicate would hold; and while the predicate holds for a key,
\* every get of it calls the source and the predicate again and stores
\* nothing.
C34_SkipAfterLoad ==
  /\ \A k \in Dom :
       /\ gSkipCalls[k] <= gSrcGets[k]
       /\ gSource[k] = None => gSkipCalls[k] = 0
  /\ (gPos = 0 /\ gLast.arg # <<>> /\ ~gLast.tuple) =>
       /\ gLast.before[LastKey] # None =>
            /\ ~gLast.raised /\ gLast.out = <<gLast.before[LastKey][1]>>
            /\ ~gLast.src /\ ~gLast.skip
            /\ gSink = gLast.before
       /\ gLast.skip => (gLast.src /\ gLast.before[LastKey] = None /\ gSource[LastKey] # None)
       /\ (gLast.before[LastKey] = None /\ gSource[LastKey] # None /\ gSkip # "none") => gLast.skip
       /\ (gLast.before[LastKey] = None /\ gSource[LastKey] # None
             /\ SkipIf(gSkip, LastKey, gSource[LastKey][1])) =>
            /\ gLast.src /\ gLast.skip
            /\ gLast.out = <<gSource[LastKey][1]>>
            /\ gSink = gLast.before

\* C34 witness: a get of a key that the sink held returned the sink's
\* value, the source and the predicate not called, although the predicate
\* holds for the key and the source's value.
C34_Witness ==
  /\ gPos = 0 /\ gLast.arg # <<>> /\ ~gLast.tuple
  /\ gLast.before[LastKey] # None /\ gSource[LastKey] # None
  /\ SkipIf(gSkip, LastKey, gSource[LastKey][1])
  /\ gLast.out = <<gLast.before[LastKey][1]>>
  /\ gSrcGets[LastKey] = 0

\* C34 second witness state: the predicate holds for a key that the sink
\* lacks, and two gets have each called the source and the predicate.
C34_SkippedTwice ==
  /\ gPos = 0 /\ gLast.arg # <<>> /\ ~gLast.tuple /\ gLast.skip
  /\ gSink[LastKey] = None
  /\ gSrcGets[LastKey] >= 2 /\ gSkipCalls[LastKey] = gSrcGets[LastKey]

\* ----------------------- claims on the query wrapper's failing gets

\* C36: on a resolution-cache miss the query wrapper stores the resolved
\* id before it fetches the data: a get whose fetch fails with KeyError
\* leaves the resolution cached, so that no later get of the key calls
\* query() again; a get whose query() raises stores nothing.
C36_ResolutionStoredBeforeFetch ==
  /\ \A k \in Dom :
       /\ nQuery[k] # None => (nQueries[k] <= 1 /\ (nQueries[k] = 1 => nCache[k] = nQuery[k]))
       /\ nQuery[k] = None => nCache[k] = None
  /\ nLast.raised = "fetch" => nCache[nLast.key] = nQuery[nLast.key]
  /\ nLast.raised = "query" => (nLast.queried /\ nCache = nLast.before)
  /\ nLast.raised # "none" => (nLast.queried <=> nLast.before[nLast.key] = None)

\* C36 witness: a get of a key has failed in the fetch a second time, with
\* query() called only for the first.
C36_Witness ==
  /\ nLast.raised = "fetch" /\ ~nLast.queried
  /\ nQueries[nLast.key] = 1
  /\ nFetches[nQuery[nLast.key][1]] >= 2

====
